---- MODULE Spec2Model ----
(***************************************************************************)
(* Model of the smart-job-portal backend: the candidate/job match scorer   *)
(* (backend/src/utils/matchAlgorithm.js), the recommendation handlers      *)
(* (backend/src/controllers/recommendation.controller.js) and the job      *)
(* search (backend/src/utils/searchUtils.js, job.controller.js).           *)
(*                                                                         *)
(* A JavaScript string is a sequence of one-character strings, so that     *)
(* toLowerCase, split, join and charAt(0).toUpperCase() are computed as    *)
(* the code computes them.  A value that may be null/undefined is wrapped: *)
(* Some(v) or None.                                                        *)
(***************************************************************************)
EXTENDS Integers, Sequences, FiniteSets, TLC

VARIABLES
  resumeSkills,  \* first argument of the calculateMatchScore call
  jobSkills,     \* second argument of the call
  matchResult,   \* the value the call returned
  pc,            \* "call" before the call returns, "done" after
  jobs,          \* the Job collection, in insertion order
  resume,        \* the Resume document of the requesting job seeker
  response,      \* the response of the request being answered
  reads,         \* the reads of the job collection that the statistics
                 \* request in flight has completed so far
  pipeline,      \* the pipeline the buildSearchAggregation call returned
  applications,  \* the Application collection, in insertion order
  users,         \* the User collection, in insertion order
  requests       \* the handlers that wait at an await, with their locals

scorerVars == <<resumeSkills, jobSkills, matchResult, pc>>
portalVars == <<jobs, resume, response, reads, pipeline>>
accountVars == <<applications, users, requests>>
vars == <<resumeSkills, jobSkills, matchResult, pc, jobs, resume, response,
         reads, pipeline, applications, users, requests>>

----------------------------------------------------------------------------
(* Bounds of the model *)

\* longest skill list enumerated from RawSkills
MaxSkills == 2

\* most jobs in the Job collection
MaxJobs == 3

----------------------------------------------------------------------------
(* JavaScript values *)

None == [some |-> FALSE, v |-> <<>>]
Some(x) == [some |-> TRUE, v |-> x]

LowerChars == <<"a","b","c","d","e","f","g","h","i","j","k","l","m",
                "n","o","p","q","r","s","t","u","v","w","x","y","z">>
UpperChars == <<"A","B","C","D","E","F","G","H","I","J","K","L","M",
                "N","O","P","Q","R","S","T","U","V","W","X","Y","Z">>

IndexIn(c, chars) ==
  IF \E i \in 1..Len(chars) : chars[i] = c
    THEN CHOOSE i \in 1..Len(chars) : chars[i] = c
    ELSE 0

toLowerCaseChar(c) ==
  IF IndexIn(c, UpperChars) = 0 THEN c ELSE LowerChars[IndexIn(c, UpperChars)]

toUpperCaseChar(c) ==
  IF IndexIn(c, LowerChars) = 0 THEN c ELSE UpperChars[IndexIn(c, LowerChars)]

\* String.prototype.toLowerCase
toLowerCase(str) == [i \in 1..Len(str) |-> toLowerCaseChar(str[i])]

\* Array.prototype.includes on an array of strings
includes(arr, x) == \E i \in 1..Len(arr) : arr[i] = x

\* str.split(' '): the words between single spaces, empty words kept
RECURSIVE splitFrom(_, _, _, _)
splitFrom(str, i, word, words) ==
  IF i > Len(str) THEN Append(words, word)
  ELSE IF str[i] = " " THEN splitFrom(str, i + 1, <<>>, Append(words, word))
  ELSE splitFrom(str, i + 1, Append(word, str[i]), words)

split(str) == splitFrom(str, 1, <<>>, <<>>)

\* words.join(' ')
RECURSIVE join(_)
join(words) ==
  IF Len(words) = 0 THEN <<>>
  ELSE IF Len(words) = 1 THEN words[1]
  ELSE words[1] \o <<" ">> \o join(Tail(words))

----------------------------------------------------------------------------
(* matchAlgorithm.js *)

\* the alias table of isSkillMatch, in the order of Object.keys
variations == <<
  [key  |-> <<"j","a","v","a","s","c","r","i","p","t">>,
   list |-> << <<"j","s">>,
               <<"j","a","v","a","s","c","r","i","p","t">>,
               <<"e","c","m","a","s","c","r","i","p","t">> >>],
  [key  |-> <<"n","o","d","e",".","j","s">>,
   list |-> << <<"n","o","d","e">>,
               <<"n","o","d","e","j","s">>,
               <<"n","o","d","e",".","j","s">> >>],
  [key  |-> <<"r","e","a","c","t">>,
   list |-> << <<"r","e","a","c","t">>,
               <<"r","e","a","c","t","j","s">>,
               <<"r","e","a","c","t",".","j","s">> >>],
  [key  |-> <<"p","y","t","h","o","n">>,
   list |-> << <<"p","y","t","h","o","n">>,
               <<"p","y","t","h","o","n","3">>,
               <<"p","y">> >>],
  [key  |-> <<"m","o","n","g","o","d","b">>,
   list |-> << <<"m","o","n","g","o">>,
               <<"m","o","n","g","o","d","b">>,
               <<"m","o","n","g","o"," ","d","b">> >>],
  [key  |-> <<"t","y","p","e","s","c","r","i","p","t">>,
   list |-> << <<"t","s">>,
               <<"t","y","p","e","s","c","r","i","p","t">> >>],
  [key  |-> <<"a","n","g","u","l","a","r">>,
   list |-> << <<"a","n","g","u","l","a","r">>,
               <<"a","n","g","u","l","a","r","j","s">>,
               <<"a","n","g","u","l","a","r",".","j","s">> >>],
  [key  |-> <<"v","u","e">>,
   list |-> << <<"v","u","e">>,
               <<"v","u","e","j","s">>,
               <<"v","u","e",".","j","s">> >>],
  [key  |-> <<"e","x","p","r","e","s","s">>,
   list |-> << <<"e","x","p","r","e","s","s">>,
               <<"e","x","p","r","e","s","s",".","j","s">> >>],
  [key  |-> <<"n","e","x","t",".","j","s">>,
   list |-> << <<"n","e","x","t">>,
               <<"n","e","x","t","j","s">>,
               <<"n","e","x","t",".","j","s">> >>],
  [key  |-> <<"f","i","r","e","b","a","s","e">>,
   list |-> << <<"f","i","r","e","b","a","s","e">>,
               <<"g","o","o","g","l","e"," ","f","i","r","e","b","a","s","e">> >> ] >>

\* the value of Array.prototype.find when no key qualifies; no key of the
\* table equals it
undefined == <<"undefined">>

\* Object.keys(variations).find(key => variations[key].includes(skill))
findKey(skill) ==
  LET hits == {i \in 1..Len(variations) : includes(variations[i].list, skill)}
  IN  IF hits = {} THEN undefined
      ELSE variations[CHOOSE i \in hits : \A j \in hits : i <= j].key

\* faulty variant: only the canonical key of the first skill's group is accepted
isSkillMatch_keyOnly(skill1, skill2) ==
  IF skill1 = skill2 THEN TRUE
  ELSE findKey(skill1) # undefined /\ skill2 = findKey(skill1)

\* faulty variant: skills match through the alias table only
isSkillMatch_aliasOnly(skill1, skill2) ==
  findKey(skill1) # undefined /\ findKey(skill1) = findKey(skill2)

isSkillMatch(skill1, skill2) ==
  IF skill1 = skill2 THEN TRUE
  ELSE findKey(skill1) = findKey(skill2)

genericSkills == << <<"c","o","m","p","u","t","e","r">>,
                    <<"s","o","f","t","w","a","r","e">>,
                    <<"p","r","o","g","r","a","m","m","i","n","g">>,
                    <<"c","o","d","i","n","g">>,
                    <<"d","e","v","e","l","o","p","m","e","n","t">>,
                    <<"t","e","c","h","n","o","l","o","g","y">>,
                    <<"i","t">>,
                    <<"t","e","c","h">> >>

isRelevantSkill(skill) == ~includes(genericSkills, toLowerCase(skill))

\* faulty variant: the first character keeps its case
capitalizeWord_noUpper(word) == word

\* word.charAt(0).toUpperCase() + word.slice(1)
capitalizeWord(word) ==
  IF Len(word) = 0 THEN <<>> ELSE <<toUpperCaseChar(word[1])>> \o Tail(word)

capitalizeFirstLetter(str) ==
  LET words == split(str)
  IN  join([i \in 1..Len(words) |-> capitalizeWord(words[i])])

\* Math.round((matched / total) * 100), total > 0: the nearest integer,
\* halves upwards
matchPercentageOf(matched, total) == (200 * matched + total) \div (2 * total)

\* faulty variant: every() in place of some()
someResumeSkillMatches_every(resumeSkillsLower, skill) ==
  \A i \in 1..Len(resumeSkillsLower) : isSkillMatch(resumeSkillsLower[i], skill)

\* resumeSkillsLower.some(resumeSkill => isSkillMatch(resumeSkill, skill))
someResumeSkillMatches(resumeSkillsLower, skill) ==
  \E i \in 1..Len(resumeSkillsLower) : isSkillMatch(resumeSkillsLower[i], skill)

matchedSkillsOf(resumeSkillsLower, jobSkillsLower) ==
  LET keep(skill) == someResumeSkillMatches(resumeSkillsLower, skill)
  IN  SelectSeq(jobSkillsLower, keep)

\* faulty variant: the negation of the filter is lost
missingSkillsOf_noNegation(resumeSkillsLower, jobSkillsLower) ==
  matchedSkillsOf(resumeSkillsLower, jobSkillsLower)

missingSkillsOf(resumeSkillsLower, jobSkillsLower) ==
  LET keep(skill) == ~someResumeSkillMatches(resumeSkillsLower, skill)
  IN  SelectSeq(jobSkillsLower, keep)

extraSkillsOf(resumeSkillsLower, jobSkillsLower) ==
  LET keep(skill) == ~includes(jobSkillsLower, skill) /\ isRelevantSkill(skill)
  IN  SelectSeq(resumeSkillsLower, keep)

Min(a, b) == IF a < b THEN a ELSE b

bonusPointsOf(extraCount) == Min(extraCount * 2, 10)

\* faulty variant: the sum is not capped
finalScoreOf_noCap(matchPercentage, bonusPoints) == matchPercentage + bonusPoints

finalScoreOf(matchPercentage, bonusPoints) == Min(matchPercentage + bonusPoints, 100)

\* skills.map(s => s.toLowerCase())
toLowerCaseAll(arr) == [i \in 1..Len(arr) |-> toLowerCase(arr[i])]

\* skills.map(s => capitalizeFirstLetter(s))
capitalizeAll(arr) == [i \in 1..Len(arr) |-> capitalizeFirstLetter(arr[i])]

\* the schema option lowercase: true of Job.skillsRequired
lowerOfSkills(arr) == toLowerCaseAll(arr)

\* faulty variant: no early return for an empty job skill list, which then counts as
\* fully matched
calculateMatchScore_noEmptyGuard(resumeArg, jobArg) ==
  IF ~resumeArg.some \/ ~jobArg.some
    THEN [score |-> 0,
          matchedSkills |-> <<>>,
          missingSkills |-> IF jobArg.some THEN jobArg.v ELSE <<>>,
          matchPercentage |-> 0]
    ELSE LET resumeSkillsLower == toLowerCaseAll(resumeArg.v)
             jobSkillsLower == toLowerCaseAll(jobArg.v)
             matched == matchedSkillsOf(resumeSkillsLower, jobSkillsLower)
             missing == missingSkillsOf(resumeSkillsLower, jobSkillsLower)
             matchPercentage == IF Len(jobSkillsLower) = 0 THEN 100
                                ELSE matchPercentageOf(Len(matched), Len(jobSkillsLower))
             extraSkills == extraSkillsOf(resumeSkillsLower, jobSkillsLower)
             bonusPoints == bonusPointsOf(Len(extraSkills))
             finalScore == finalScoreOf(matchPercentage, bonusPoints)
         IN  [score |-> finalScore,
              matchedSkills |-> capitalizeAll(matched),
              missingSkills |-> capitalizeAll(missing),
              matchPercentage |-> matchPercentage,
              bonusPoints |-> bonusPoints,
              extraSkills |-> capitalizeAll(extraSkills)]

\* the arguments are Some(list of strings) or None (null/undefined)
calculateMatchScore(resumeArg, jobArg) ==
  IF ~resumeArg.some \/ ~jobArg.some \/ Len(jobArg.v) = 0
    THEN [score |-> 0,
          matchedSkills |-> <<>>,
          missingSkills |-> IF jobArg.some THEN jobArg.v ELSE <<>>,
          matchPercentage |-> 0]
    ELSE LET resumeSkillsLower == toLowerCaseAll(resumeArg.v)
             jobSkillsLower == toLowerCaseAll(jobArg.v)
             matched == matchedSkillsOf(resumeSkillsLower, jobSkillsLower)
             missing == missingSkillsOf(resumeSkillsLower, jobSkillsLower)
             matchPercentage == matchPercentageOf(Len(matched), Len(jobSkillsLower))
             extraSkills == extraSkillsOf(resumeSkillsLower, jobSkillsLower)
             bonusPoints == bonusPointsOf(Len(extraSkills))
             finalScore == finalScoreOf(matchPercentage, bonusPoints)
         IN  [score |-> finalScore,
              matchedSkills |-> capitalizeAll(matched),
              missingSkills |-> capitalizeAll(missing),
              matchPercentage |-> matchPercentage,
              bonusPoints |-> bonusPoints,
              extraSkills |-> capitalizeAll(extraSkills)]

----------------------------------------------------------------------------
(* Inputs of the scorer *)

sJS == <<"J","S">>
sJavascript == <<"j","a","v","a","s","c","r","i","p","t">>
sDocker == <<"d","o","c","k","e","r">>
sKubernetes == <<"K","u","b","e","r","n","e","t","e","s">>
sIT == <<"I","T">>
sMongoDb == <<"m","o","n","g","o"," ","d","b">>

\* raw skill strings: mixed case, aliases of one group, skills of no group,
\* a generic skill, a skill of two words
RawSkills == {sJS, sJavascript, sDocker, sKubernetes, sIT, sMongoDb}

RECURSIVE ListsUpTo(_, _)
ListsUpTo(S, n) ==
  IF n = 0 THEN {<<>>}
  ELSE LET shorter == ListsUpTo(S, n - 1)
       IN  shorter \cup {Append(l, x) : l \in shorter, x \in S}

\* the end-to-end example of the specification
ExampleCandidate == << <<"J","a","v","a","S","c","r","i","p","t">>,
                       <<"M","o","n","g","o","D","B">>,
                       <<"R","e","a","c","t">> >>
ExampleJob == << <<"j","a","v","a","s","c","r","i","p","t">>,
                 <<"n","o","d","e",".","j","s">>,
                 <<"m","o","n","g","o","d","b">>,
                 <<"d","o","c","k","e","r">> >>

\* a candidate with more extra skills than the bonus pays for
BroadCandidate == << <<"R","e","a","c","t">>, <<"v","u","e">>, <<"t","s">>,
                     <<"p","y">>, <<"n","e","x","t">>, <<"e","x","p","r","e","s","s">>,
                     <<"J","S">> >>

\* the alias example of the specification: candidate ['JS'], job ['JavaScript']
AliasExampleJob == << <<"J","a","v","a","S","c","r","i","p","t">> >>

\* a job list naming one skill in two spellings
CaseDuplicateJob == << <<"J","S">>, <<"j","s">> >>

ResumeInputs ==
  {None} \cup {Some(l) : l \in ListsUpTo(RawSkills, MaxSkills) \cup {ExampleCandidate, BroadCandidate}}

JobInputs ==
  {None} \cup {Some(l) : l \in ListsUpTo(RawSkills, MaxSkills) \cup {ExampleJob, AliasExampleJob, CaseDuplicateJob}}

----------------------------------------------------------------------------
(* The scorer as a state machine: one call on one pair of inputs *)

NoResult == [pending |-> TRUE]

\* no response is on its way to the client; requests are taken one at a
\* time, the response of one is sent before the next is taken
NoResponse == [status |-> 0]

\* no statistics request is in flight
NoReads == [inFlight |-> FALSE]

Init ==
  /\ resumeSkills \in ResumeInputs
  /\ jobSkills \in JobInputs
  /\ matchResult = NoResult
  /\ pc = "call"
  /\ jobs = <<>>
  /\ resume = None
  /\ response = NoResponse
  /\ reads = NoReads
  /\ pipeline = None
  /\ applications = <<>>
  /\ users = <<>>
  /\ requests = <<>>

CalculateMatchScore ==
  /\ pc = "call"
  /\ matchResult' = calculateMatchScore(resumeSkills, jobSkills)
  /\ pc' = "done"
  /\ UNCHANGED <<resumeSkills, jobSkills>>
  /\ UNCHANGED <<portalVars, accountVars>>

Next == CalculateMatchScore

Spec == Init /\ [][Next]_vars

----------------------------------------------------------------------------
(* JavaScript numbers and arrays used by the controllers *)

NaN == [nan |-> TRUE, n |-> 0]
Num(k) == [nan |-> FALSE, n |-> k]

Digits == <<"0","1","2","3","4","5","6","7","8","9">>

isDigit(c) == IndexIn(c, Digits) # 0

\* the index of the first character of str at or after i that is no space
RECURSIVE skipSpaces(_, _)
skipSpaces(str, i) ==
  IF i <= Len(str) /\ str[i] = " " THEN skipSpaces(str, i + 1) ELSE i

\* the value of the run of decimal digits of str that starts at i, after acc
RECURSIVE digitsFrom(_, _, _)
digitsFrom(str, i, acc) ==
  IF i <= Len(str) /\ isDigit(str[i])
    THEN digitsFrom(str, i + 1, 10 * acc + (IndexIn(str[i], Digits) - 1))
    ELSE acc

\* parseInt(str): leading spaces, an optional sign, then decimal digits up to
\* the first other character; NaN without a digit
parseInt(str) ==
  LET start == skipSpaces(str, 1)
      signed == start <= Len(str) /\ str[start] \in {"-", "+"}
      first == IF signed THEN start + 1 ELSE start
  IN  IF first > Len(str) \/ ~isDigit(str[first]) THEN NaN
      ELSE IF signed /\ str[start] = "-" THEN Num(0 - digitsFrom(str, first, 0))
      ELSE Num(digitsFrom(str, first, 0))

\* a >= b on numbers; false when b is NaN
greaterOrEqual(a, b) == ~b.nan /\ a >= b.n

\* arr.slice(0, end): NaN counts as 0, a negative end counts from the back
slice0(arr, end) ==
  LET e == IF end.nan THEN 0
           ELSE IF end.n < 0 THEN (IF Len(arr) + end.n < 0 THEN 0 ELSE Len(arr) + end.n)
           ELSE Min(end.n, Len(arr))
  IN  SubSeq(arr, 1, e)

\* faulty variant: the comparator is key(a) - key(b), ascending
sortDescending_ascending(arr, keys) ==
  LET n == Len(arr)
      rank(i) == 1 + Cardinality({j \in 1..n : \/ keys[j] < keys[i]
                                               \/ keys[j] = keys[i] /\ j < i})
  IN  [p \in 1..n |-> arr[CHOOSE i \in 1..n : rank(i) = p]]

\* arr.sort((a, b) => key(b) - key(a)) with keys[i] the key of arr[i]:
\* descending keys, equal keys in their order of arr (the sort is stable)
sortDescending(arr, keys) ==
  LET n == Len(arr)
      rank(i) == 1 + Cardinality({j \in 1..n : \/ keys[j] > keys[i]
                                               \/ keys[j] = keys[i] /\ j < i})
  IN  [p \in 1..n |-> arr[CHOOSE i \in 1..n : rank(i) = p]]

\* new RegExp(pattern, 'i').test(text), for a pattern of letters
regExpTestIgnoreCase(pattern, text) ==
  \E off \in 0..(Len(text) - Len(pattern)) :
    \A k \in 1..Len(pattern) :
      toLowerCaseChar(text[off + k]) = toLowerCaseChar(pattern[k])

----------------------------------------------------------------------------
(* Job and Resume documents *)

tRemote == "remote"
tFullTime == "full-time"

lLahore == <<"L","a","h","o","r","e">>
lKarachi == <<"K","a","r","a","c","h","i">>

\* the request bodies of createJob
JobBodies == {
  [location |-> lLahore, jobType |-> tRemote, experienceLevel |-> "mid",
   skillsRequired |-> << <<"j","a","v","a","s","c","r","i","p","t">> >>],
  [location |-> lLahore, jobType |-> tRemote, experienceLevel |-> "senior",
   skillsRequired |-> << <<"j","a","v","a","s","c","r","i","p","t">>,
                         <<"d","o","c","k","e","r">> >>],
  [location |-> lKarachi, jobType |-> tFullTime, experienceLevel |-> "mid",
   skillsRequired |-> << <<"d","o","c","k","e","r">> >>] }

\* Job.create: a new active document, created after every earlier one
createJob(body) ==
  /\ response = NoResponse
  /\ Len(jobs) < MaxJobs
  /\ jobs' = Append(jobs, [id |-> Len(jobs) + 1,
                           createdAt |-> Len(jobs) + 1,
                           isActive |-> TRUE,
                           location |-> body.location,
                           jobType |-> body.jobType,
                           experienceLevel |-> body.experienceLevel,
                           skillsRequired |-> lowerOfSkills(body.skillsRequired)])
  /\ UNCHANGED <<resume, response, reads>>
  /\ UNCHANGED <<scorerVars, pipeline, accountVars>>

\* updateJob with the body {isActive: false}
deactivateJob(i) ==
  /\ response = NoResponse
  /\ i \in 1..Len(jobs)
  /\ jobs[i].isActive
  /\ jobs' = [jobs EXCEPT ![i].isActive = FALSE]
  /\ UNCHANGED <<resume, response, reads>>
  /\ UNCHANGED <<scorerVars, pipeline, accountVars>>

\* the Resume document of the job seeker: none, one without skills (not yet
\* analysed), one with the skills of the example candidate
ResumeDocuments == {None, Some([skills |-> <<>>]), Some([skills |-> ExampleCandidate])}

----------------------------------------------------------------------------
(* recommendation.controller.js: getRecommendedJobs *)

RecommendFetchLimit == 100
DefaultLimit == <<"1","0">>
DefaultMinMatchScore == <<"3","0">>

\* req.query: every parameter is a string or absent
Query(limit, minMatchScore, location, jobType, experienceLevel) ==
  [limit |-> limit, minMatchScore |-> minMatchScore, location |-> location,
   jobType |-> jobType, experienceLevel |-> experienceLevel]

Absent == [some |-> FALSE, v |-> <<>>]

LimitInputs == {Absent, Some(<<"1">>), Some(<<"2">>), Some(<<"-","1">>), Some(<<"a","l","l">>)}
MinMatchScoreInputs == {Absent, Some(<<"0">>), Some(<<"6","0">>), Some(<<"x">>)}

Queries ==
  {Query(l, m, Absent, Absent, Absent) : l \in LimitInputs, m \in MinMatchScoreInputs}
    \cup {Query(Absent, Some(<<"0">>), Some(<<"l","a","h">>), Absent, Absent),
          Query(Absent, Some(<<"0">>), Absent, [some |-> TRUE, v |-> tRemote], Absent),
          Query(Absent, Some(<<"0">>), Absent, Absent, [some |-> TRUE, v |-> "senior"])}

\* const { limit = 10, minMatchScore = 30 } = req.query
orDefault(param, default) == IF param.some THEN param.v ELSE default

\* Job.find(queryObj).sort('-createdAt').limit(100)
matchesQueryObj(job, query) ==
  /\ job.isActive
  /\ query.location.some => regExpTestIgnoreCase(query.location.v, job.location)
  /\ query.jobType.some => job.jobType = query.jobType.v
  /\ query.experienceLevel.some => job.experienceLevel = query.experienceLevel.v

createdAtOf(job) == job.createdAt

findJobs(query) ==
  LET keep(job) == matchesQueryObj(job, query)
      found == SelectSeq(jobs, keep)
      newestFirst == sortDescending(found, [i \in 1..Len(found) |-> createdAtOf(found[i])])
  IN  SubSeq(newestFirst, 1, Min(Len(newestFirst), RecommendFetchLimit))

scoredJob(job) ==
  LET result == calculateMatchScore(Some(resume.v.skills), Some(job.skillsRequired))
  IN  [job |-> [id |-> job.id, createdAt |-> job.createdAt,
                skillsRequired |-> job.skillsRequired],
       matchScore |-> result.score,
       matchDetails |-> [matchedSkills |-> result.matchedSkills,
                         missingSkills |-> result.missingSkills,
                         matchPercentage |-> result.matchPercentage]]

matchScoreOf(entry) == entry.matchScore

recommendedJobsResponse(query) ==
  IF ~resume.some \/ Len(resume.v.skills) = 0 THEN [status |-> 400]
  ELSE LET found == findJobs(query)
           limit == parseInt(orDefault(query.limit, DefaultLimit))
           minMatchScore == parseInt(orDefault(query.minMatchScore, DefaultMinMatchScore))
       IN  IF Len(found) = 0 THEN [status |-> 404]
           ELSE LET jobsWithScores == [i \in 1..Len(found) |-> scoredJob(found[i])]
                    passes(entry) == greaterOrEqual(entry.matchScore, minMatchScore)
                    filteredJobs == SelectSeq(jobsWithScores, passes)
                    sortedJobs == sortDescending(filteredJobs,
                                                 [i \in 1..Len(filteredJobs) |-> matchScoreOf(filteredJobs[i])])
                    recommended == slice0(sortedJobs, limit)
                IN  [status |-> 200,
                     results |-> Len(recommended),
                     totalAvailable |-> Len(filteredJobs),
                     jobs |-> recommended,
                     \* the ids of the local `jobs` and the parsed
                     \* parameters, kept for the properties
                     fetched |-> [i \in 1..Len(found) |-> found[i].id],
                     limit |-> limit,
                     minMatchScore |-> minMatchScore]

getRecommendedJobs(query) ==
  /\ response = NoResponse
  /\ response' = recommendedJobsResponse(query)
  /\ UNCHANGED <<jobs, resume, reads>>
  /\ UNCHANGED <<scorerVars, pipeline, accountVars>>

\* res.status(...).json(...): the response leaves the server
sendResponse ==
  /\ response # NoResponse
  /\ response' = NoResponse
  /\ UNCHANGED <<jobs, resume, reads>>
  /\ UNCHANGED <<scorerVars, pipeline, accountVars>>

InitPortal ==
  /\ resumeSkills = None
  /\ jobSkills = None
  /\ matchResult = NoResult
  /\ pc = "idle"
  /\ jobs = <<>>
  /\ resume \in ResumeDocuments
  /\ response = NoResponse
  /\ reads = NoReads
  /\ pipeline = None
  /\ applications = <<>>
  /\ users = <<>>
  /\ requests = <<>>

NextPortal ==
  \/ \E body \in JobBodies : createJob(body)
  \/ \E i \in 1..MaxJobs : deactivateJob(i)
  \/ \E query \in Queries : getRecommendedJobs(query)
  \/ sendResponse

SpecPortal == InitPortal /\ [][NextPortal]_vars

----------------------------------------------------------------------------
(* Vocabulary of the properties *)

Range(seq) == {seq[i] : i \in 1..Len(seq)}

scored == pc = "done"

\* the call ran past the early return of calculateMatchScore
fullyScored ==
  scored /\ resumeSkills.some /\ jobSkills.some /\ Len(jobSkills.v) > 0

lowerOf(list) == toLowerCaseAll(list)

titleCaseOf(list) == capitalizeAll(list)

\* the alias groups a lower-case skill belongs to
groupsOf(skill) == {i \in 1..Len(variations) : includes(variations[i].list, skill)}

\* the skill equivalence of the specification, on lower-case forms: the same
\* alias group, or, outside every group, the same string
equivalent(a, b) ==
  IF groupsOf(a) = {} /\ groupsOf(b) = {}
    THEN a = b
    ELSE groupsOf(a) \cap groupsOf(b) # {}

equivalentToSome(list, skill) == \E i \in 1..Len(list) : equivalent(list[i], skill)

----------------------------------------------------------------------------
(* Properties of the match scorer *)

\* C1: the score is an integer in [0,100]; past the early return it is
\* min(matchPercentage + bonusPoints, 100) with
\* bonusPoints = min(2 x extraCount, 10) <= 10; the early return gives 0.
C1_ScoreInRange ==
  scored =>
    /\ matchResult.score \in 0..100
    /\ ~fullyScored => matchResult.score = 0
    /\ fullyScored =>
         LET sum == matchResult.matchPercentage + matchResult.bonusPoints
             twice == 2 * Len(matchResult.extraSkills)
         IN  /\ matchResult.score = (IF sum < 100 THEN sum ELSE 100)
             /\ matchResult.bonusPoints = (IF twice < 10 THEN twice ELSE 10)
             /\ matchResult.bonusPoints <= 10

\* C1 witness: a call whose percentage plus bonus exceeds 100 and is capped
C1_Witness ==
  /\ fullyScored
  /\ matchResult.matchPercentage + matchResult.bonusPoints > 100
  /\ matchResult.score = 100

\* C2 (as claimed): a job skill is matched iff some candidate skill is
\* equivalent to it (same alias group, or equal lower-case strings outside
\* every group).
C2_MatchedIffEquivalent ==
  fullyScored =>
    LET resumeLower == lowerOf(resumeSkills.v)
        keep(skill) == equivalentToSome(resumeLower, skill)
    IN  matchResult.matchedSkills = titleCaseOf(SelectSeq(lowerOf(jobSkills.v), keep))

\* C3: with an empty or absent job skill list the result is score 0, no
\* matched skill, the job skill list itself (empty) as missing, percentage 0.
C3_EmptyJobSkills ==
  (scored /\ (~jobSkills.some \/ Len(jobSkills.v) = 0)) =>
    /\ matchResult.score = 0
    /\ matchResult.matchedSkills = <<>>
    /\ matchResult.missingSkills = jobSkills.v
    /\ matchResult.matchPercentage = 0

\* C3 witness: a non-empty candidate list scored against an empty job list
C3_Witness ==
  /\ scored
  /\ jobSkills.some /\ Len(jobSkills.v) = 0
  /\ resumeSkills.some /\ Len(resumeSkills.v) > 0
  /\ matchResult.score = 0

\* C4: for candidate and job skill lists, matched and missing skills are
\* disjoint and together as many as the distinct (lower-case) job skills.
C4_Partition ==
  (scored /\ resumeSkills.some /\ jobSkills.some) =>
    LET matched == Range(matchResult.matchedSkills)
        missing == Range(matchResult.missingSkills)
    IN  /\ matched \cap missing = {}
        /\ Cardinality(matched \cup missing)
             = Cardinality(Range(lowerOf(jobSkills.v)))

\* C4 witness: a job list naming one skill twice, in two spellings, matched
C4_Witness ==
  /\ fullyScored
  /\ jobSkills.v = CaseDuplicateJob
  /\ Len(matchResult.matchedSkills) > 0

\* C5 (as claimed): the extra skills are the candidate skills equivalent to
\* no job skill and not in the generic deny-list.
C5_ExtraNotEquivalent ==
  fullyScored =>
    LET jobLower == lowerOf(jobSkills.v)
        keep(skill) == ~equivalentToSome(jobLower, skill) /\ ~includes(genericSkills, skill)
    IN  matchResult.extraSkills = titleCaseOf(SelectSeq(lowerOf(resumeSkills.v), keep))

\* the bonus of a result; the early return reports none
bonusOf(result) == IF "bonusPoints" \in DOMAIN result THEN result.bonusPoints ELSE 0

\* C6 (as claimed): every skill list scored against itself gives 100 when
\* the extra-skill bonus is 0.
C6_SelfScoreAnyList ==
  (scored /\ resumeSkills.some /\ jobSkills.some /\ resumeSkills.v = jobSkills.v
      /\ bonusOf(matchResult) = 0)
    => matchResult.score = 100

\* C6 (amended): every non-empty skill list scored against itself gives 100
\* when the extra-skill bonus is 0.
C6_SelfScoreNonEmpty ==
  (fullyScored /\ resumeSkills.v = jobSkills.v /\ bonusOf(matchResult) = 0)
    => matchResult.score = 100

\* C6 witness: a non-empty list scored against itself
C6_Witness ==
  /\ fullyScored
  /\ resumeSkills.v = jobSkills.v
  /\ matchResult.bonusPoints = 0
  /\ matchResult.score = 100

\* every lower-case skill of the alias table and of the inputs
KnownSkills ==
  UNION {Range(variations[i].list) : i \in 1..Len(variations)}
    \cup {toLowerCase(s) : s \in RawSkills}
    \cup Range(lowerOf(ExampleCandidate)) \cup Range(lowerOf(ExampleJob))
    \cup Range(lowerOf(BroadCandidate)) \cup Range(lowerOf(AliasExampleJob))

isSkillMatchSymmetric ==
  \A a, b \in KnownSkills : isSkillMatch(a, b) = isSkillMatch(b, a)

isSkillMatchTransitive ==
  \A a, b \in KnownSkills :
    isSkillMatch(a, b) => \A c \in KnownSkills : isSkillMatch(b, c) => isSkillMatch(a, c)

aliasGroupsDisjoint == \A a \in KnownSkills : Cardinality(groupsOf(a)) <= 1

\* C7: isSkillMatch is symmetric and transitive, no skill is in two alias
\* groups, and candidate ['JS'] against job ['JavaScript'] has percentage 100.
C7_EquivalenceRelation ==
  /\ aliasGroupsDisjoint
  /\ isSkillMatchSymmetric
  /\ isSkillMatchTransitive
  /\ (scored /\ resumeSkills = Some(<<sJS>>) /\ jobSkills = Some(AliasExampleJob))
       => matchResult.matchPercentage = 100

\* C7 witness: the alias example, scored
C7_Witness ==
  /\ scored
  /\ resumeSkills = Some(<<sJS>>)
  /\ jobSkills = Some(AliasExampleJob)
  /\ matchResult.matchPercentage = 100

exampleScored ==
  scored /\ resumeSkills = Some(ExampleCandidate) /\ jobSkills = Some(ExampleJob)

\* C8 (as claimed): the example gives matched ['Javascript','Mongodb'],
\* missing ['Node.Js','Docker'], percentage 50 and a score of at least 50.
C8_ExampleAsClaimed ==
  exampleScored =>
    /\ matchResult.matchedSkills = << <<"J","a","v","a","s","c","r","i","p","t">>,
                                      <<"M","o","n","g","o","d","b">> >>
    /\ matchResult.missingSkills = << <<"N","o","d","e",".","J","s">>,
                                      <<"D","o","c","k","e","r">> >>
    /\ matchResult.matchPercentage = 50
    /\ matchResult.score >= 50

\* C8 (amended): the example gives matched ['Javascript','Mongodb'],
\* missing ['Node.js','Docker'], percentage 50 and a score of at least 50.
C8_Example ==
  exampleScored =>
    /\ matchResult.matchedSkills = << <<"J","a","v","a","s","c","r","i","p","t">>,
                                      <<"M","o","n","g","o","d","b">> >>
    /\ matchResult.missingSkills = << <<"N","o","d","e",".","j","s">>,
                                      <<"D","o","c","k","e","r">> >>
    /\ matchResult.matchPercentage = 50
    /\ matchResult.score >= 50

\* C8 witness: the example, scored
C8_Witness == exampleScored /\ matchResult.matchPercentage = 50

\* C9: an empty candidate list against a non-empty job list reports every
\* job skill missing (title case, job order), none matched, score 0.
C9_EmptyCandidate ==
  (scored /\ resumeSkills = Some(<<>>) /\ jobSkills.some /\ Len(jobSkills.v) > 0) =>
    /\ matchResult.missingSkills = titleCaseOf(lowerOf(jobSkills.v))
    /\ matchResult.matchedSkills = <<>>
    /\ matchResult.score = 0

\* C9 witness: an empty candidate list scored against two job skills
C9_Witness ==
  /\ scored
  /\ resumeSkills = Some(<<>>)
  /\ jobSkills.some /\ Len(jobSkills.v) = 2
  /\ Len(matchResult.missingSkills) = 2

----------------------------------------------------------------------------
(* Properties of getRecommendedJobs *)

recommended == response.status = 200

\* the position of a job id in the fetched (newest first) job sequence
fetchedPosition(id) == CHOOSE p \in 1..Len(response.fetched) : response.fetched[p] = id

\* the score of the stored job with the given id for the stored resume
scoreOfJob(id) ==
  calculateMatchScore(Some(resume.v.skills), Some(jobs[id].skillsRequired)).score

\* the fetched jobs whose score passes the minimum-score filter
passingFetched ==
  {p \in 1..Len(response.fetched) :
     /\ ~response.minMatchScore.nan
     /\ scoreOfJob(response.fetched[p]) >= response.minMatchScore.n}

\* every entry passes the minimum score, scores do not increase, entries of
\* equal score are in fetched (newest first) order, and totalAvailable counts
\* the jobs that passed the filter
recommendedListOrdered ==
  /\ \A i \in 1..Len(response.jobs) :
       /\ ~response.minMatchScore.nan
       /\ response.jobs[i].matchScore >= response.minMatchScore.n
       /\ response.jobs[i].matchScore = scoreOfJob(response.jobs[i].job.id)
  /\ \A i, j \in 1..Len(response.jobs) :
       i < j =>
         /\ response.jobs[i].matchScore >= response.jobs[j].matchScore
         /\ response.jobs[i].matchScore = response.jobs[j].matchScore =>
              /\ fetchedPosition(response.jobs[i].job.id)
                   < fetchedPosition(response.jobs[j].job.id)
              /\ response.jobs[i].job.createdAt > response.jobs[j].job.createdAt
  /\ response.totalAvailable = Cardinality(passingFetched)

\* C10 (as claimed): entries pass minMatchScore, are in non-increasing score
\* order with ties in fetched order, are at most `limit`, and totalAvailable
\* is the number of jobs that passed the filter.
C10_RecommendedList ==
  recommended =>
    /\ recommendedListOrdered
    /\ ~response.limit.nan => Len(response.jobs) <= response.limit.n

\* C10 (amended): the same, with the length of the list stated for every
\* limit: the first `limit` passing jobs for a limit >= 0, none for a limit
\* that is no number, all but the last |limit| for a negative limit.
C10_RecommendedListAnyLimit ==
  recommended =>
    /\ recommendedListOrdered
    /\ Len(response.jobs) =
         (IF response.limit.nan THEN 0
          ELSE IF response.limit.n >= 0
                 THEN (IF response.limit.n < response.totalAvailable
                         THEN response.limit.n ELSE response.totalAvailable)
          ELSE (IF response.totalAvailable + response.limit.n > 0
                  THEN response.totalAvailable + response.limit.n ELSE 0))

\* C10 witness: a request with limit 1 answered with the newer of two
\* passing jobs of equal score
C10_Witness ==
  /\ recommended
  /\ response.limit = Num(1)
  /\ response.totalAvailable >= 2
  /\ Len(response.jobs) = 1
  /\ \E p \in passingFetched : p > 1 /\ scoreOfJob(response.fetched[p]) = response.jobs[1].matchScore

----------------------------------------------------------------------------
(* Job documents with every field the search and feed handlers read *)

\* most jobs in the Job collection of the personalized feed
MaxFeedJobs == 6

wDev == <<"D","e","v">>
wChef == <<"C","h","e","f">>
wAcme == <<"A","c","m","e">>
wBuild == <<"b","u","i","l","d">>
wCook == <<"c","o","o","k">>

\* salary: {min: Number, max: Number, currency: {default: 'USD'}}: the
\* embedded document of a job posted with or without a salary
salaryDocument(salary) ==
  IF salary.some
    THEN [min |-> salary.v.min, max |-> salary.v.max, currency |-> "USD"]
    ELSE [currency |-> "USD"]

\* Job.create(...): the document stored for a request body at time now
jobDocument(body, now) ==
  [id |-> now,
   createdAt |-> now,
   isActive |-> TRUE,
   title |-> body.title,
   description |-> body.description,
   company |-> body.company,
   location |-> body.location,
   jobType |-> orDefault(body.jobType, tFullTime),
   experienceLevel |-> orDefault(body.experienceLevel, "mid"),
   salary |-> salaryDocument(body.salary),
   skillsRequired |-> lowerOfSkills(body.skillsRequired),
   applicationDeadline |-> body.applicationDeadline,
   applicantsCount |-> 0,
   viewsCount |-> 0]

\* createJob on a collection of at most max documents
postJob(body, max) ==
  /\ response = NoResponse
  /\ Len(jobs) < max
  /\ jobs' = Append(jobs, jobDocument(body, Len(jobs) + 1))
  /\ UNCHANGED <<resume, response, reads>>
  /\ UNCHANGED <<scorerVars, pipeline, accountVars>>

\* a request body of createJob that requires the given skills
bodyRequiring(skills) ==
  [title |-> wDev, description |-> wBuild, company |-> wAcme,
   location |-> lLahore, jobType |-> Some(tRemote), experienceLevel |-> None,
   salary |-> None, skillsRequired |-> skills, applicationDeadline |-> None]

\* against the example candidate: a high, a medium and a low match
FeedBodies ==
  { bodyRequiring(<< sJavascript >>),
    bodyRequiring(<< sJavascript, sDocker >>),
    bodyRequiring(<< sDocker >>) }

----------------------------------------------------------------------------
(* recommendation.controller.js: getPersonalizedFeed *)

FeedFetchLimit == 50
HighMatchScore == 70
MediumMatchScore == 40
TierDisplayCount == 5
TrendingLimit == 5

\* the orders in which the database may return documents whose sort keys are
\* equal: it promises none, the model takes the insertion order and its
\* reverse
TieOrders == {"natural", "reverse"}

\* .sort on keys (descending), documents of equal keys in the given tie order
sortDescendingTies(arr, keys, tieOrder) ==
  LET n == Len(arr)
      tieBefore(j, i) == IF tieOrder = "natural" THEN j < i ELSE j > i
      before(j, i) == keys[j] > keys[i] \/ (keys[j] = keys[i] /\ tieBefore(j, i))
      rank(i) == 1 + Cardinality({j \in 1..n : j # i /\ before(j, i)})
  IN  [r \in 1..n |-> arr[CHOOSE i \in 1..n : rank(i) = r]]

\* faulty variant: the documents of every job, active or not
activeJobs_unfiltered == jobs

\* Job.find({isActive: true})
activeJobs == LET active(job) == job.isActive IN SelectSeq(jobs, active)

\* Job.find({isActive: true}).sort('-createdAt').limit(50)
feedJobs ==
  LET found == activeJobs
      newestFirst == sortDescending(found, [i \in 1..Len(found) |-> createdAtOf(found[i])])
  IN  SubSeq(newestFirst, 1, Min(Len(newestFirst), FeedFetchLimit))

\* Job.find({isActive: true}).sort('-viewsCount').limit(5)
trendingJobs(tieOrder) ==
  LET found == activeJobs
      mostViewedFirst == sortDescendingTies(found,
                           [i \in 1..Len(found) |-> found[i].viewsCount], tieOrder)
  IN  SubSeq(mostViewedFirst, 1, Min(Len(mostViewedFirst), TrendingLimit))

\* jobs.map(job => ({job, matchScore, matchDetails}))
feedEntry(job) ==
  LET result == calculateMatchScore(Some(resume.v.skills), Some(job.skillsRequired))
  IN  [job |-> job, matchScore |-> result.score, matchDetails |-> result]

\* formatJobWithMatch(item)
formatJobWithMatch(item) ==
  [id |-> item.job.id,
   title |-> item.job.title,
   company |-> item.job.company,
   location |-> item.job.location,
   jobType |-> item.job.jobType,
   experienceLevel |-> item.job.experienceLevel,
   skillsRequired |-> item.job.skillsRequired,
   applicantsCount |-> item.job.applicantsCount,
   viewsCount |-> item.job.viewsCount,
   matchScore |-> item.matchScore,
   matchDetails |-> [matchedSkills |-> item.matchDetails.matchedSkills,
                     missingSkills |-> item.matchDetails.missingSkills,
                     matchPercentage |-> item.matchDetails.matchPercentage]]

highMatchOf(jobsWithScores) ==
  LET high(j) == j.matchScore >= HighMatchScore
  IN  SelectSeq(jobsWithScores, high)

\* faulty variant: the medium tier without its upper limit
mediumMatchOf_noUpperLimit(jobsWithScores) ==
  LET medium(j) == j.matchScore >= MediumMatchScore
  IN  SelectSeq(jobsWithScores, medium)

mediumMatchOf(jobsWithScores) ==
  LET medium(j) == j.matchScore >= MediumMatchScore /\ j.matchScore < HighMatchScore
  IN  SelectSeq(jobsWithScores, medium)

lowMatchOf(jobsWithScores) ==
  LET low(j) == j.matchScore < MediumMatchScore
  IN  SelectSeq(jobsWithScores, low)

\* {count: tier.length, jobs: tier.slice(0, 5).map(formatJobWithMatch)}
tierOf(tier) ==
  LET shown == SubSeq(tier, 1, Min(Len(tier), TierDisplayCount))
  IN  [count |-> Len(tier),
       jobs |-> [i \in 1..Len(shown) |-> formatJobWithMatch(shown[i])]]

personalizedFeedResponse(tieOrder) ==
  IF ~resume.some THEN [status |-> 400]
  ELSE LET found == feedJobs
           jobsWithScores == [i \in 1..Len(found) |-> feedEntry(found[i])]
           trending == trendingJobs(tieOrder)
       IN  [status |-> 200,
            highMatch |-> tierOf(highMatchOf(jobsWithScores)),
            mediumMatch |-> tierOf(mediumMatchOf(jobsWithScores)),
            lowMatch |-> tierOf(lowMatchOf(jobsWithScores)),
            trending |-> [count |-> Len(trending),
                          jobs |-> [i \in 1..Len(trending) |-> trending[i].id]],
            userSkills |-> resume.v.skills,
            totalJobsAvailable |-> Len(found),
            \* the scored list, kept for the properties
            scores |-> [i \in 1..Len(found) |-> [id |-> found[i].id,
                                                  matchScore |-> jobsWithScores[i].matchScore]]]

getPersonalizedFeed(tieOrder) ==
  /\ response = NoResponse
  /\ response' = personalizedFeedResponse(tieOrder)
  /\ UNCHANGED <<jobs, resume, reads>>
  /\ UNCHANGED <<scorerVars, pipeline, accountVars>>

NextFeed ==
  \/ \E body \in FeedBodies : postJob(body, MaxFeedJobs)
  \/ \E tieOrder \in TieOrders : getPersonalizedFeed(tieOrder)
  \/ sendResponse

SpecFeed == InitPortal /\ [][NextFeed]_vars

----------------------------------------------------------------------------
(* Properties of the personalized feed *)

fed == response.status = 200 /\ "highMatch" \in DOMAIN response

\* the entries of the scored list whose score lies in lo..hi, as shown
scoredWithin(lo, hi) ==
  LET within(e) == e.matchScore >= lo /\ e.matchScore <= hi
  IN  SelectSeq(response.scores, within)

tierAsClaimed(tier, lo, hi) ==
  LET members == scoredWithin(lo, hi)
  IN  /\ tier.count = Len(members)
      /\ Len(tier.jobs) = (IF tier.count < 5 THEN tier.count ELSE 5)
      /\ \A i \in 1..Len(tier.jobs) :
           /\ tier.jobs[i].id = members[i].id
           /\ tier.jobs[i].matchScore = members[i].matchScore

\* C11: every scored job of the feed is in exactly one tier (high: score >=
\* 70, medium: 40..69, low: below 40), the three counts add up to
\* totalJobsAvailable, and a tier shows its first five jobs at most while its
\* count is the size of the whole tier.
C11_FeedTiers ==
  fed =>
    /\ \A i \in 1..Len(response.scores) : response.scores[i].matchScore \in 0..100
    /\ tierAsClaimed(response.highMatch, 70, 100)
    /\ tierAsClaimed(response.mediumMatch, 40, 69)
    /\ tierAsClaimed(response.lowMatch, 0, 39)
    /\ response.highMatch.count + response.mediumMatch.count
         + response.lowMatch.count = response.totalJobsAvailable
    /\ response.totalJobsAvailable = Len(response.scores)

\* C11 witness: a feed whose high tier holds more jobs than it shows
C11_Witness ==
  /\ fed
  /\ response.highMatch.count > 5
  /\ Len(response.highMatch.jobs) = 5

----------------------------------------------------------------------------
(* searchUtils.js: buildJobSearchQuery, and how the database matches it *)

\* if (value): a request parameter that is present and no empty string
truthy(param) == param.some /\ param.v # <<>>

\* the order of the UTF-16 code units of the characters the model uses
CodeUnits == <<" ", "+", "-", ".">> \o Digits \o UpperChars \o LowerChars

charCodeAt(c) == IndexIn(c, CodeUnits)

Max(a, b) == IF a > b THEN a ELSE b

\* Math.ceil(a / b) for a >= 0 and any b # 0 (b < 0 gives a quotient <= 0)
ceilDiv(a, b) == IF b > 0 THEN (a + b - 1) \div b ELSE 0 - (a \div (0 - b))

\* new Date(str) of an ISO date '1970-01-dd': the day dd; any other string
\* gives an Invalid Date
IsoPrefix == <<"1","9","7","0","-","0","1","-">>

newDate(str) ==
  IF Len(str) = 10 /\ SubSeq(str, 1, 8) = IsoPrefix /\ isDigit(str[9]) /\ isDigit(str[10])
    THEN Num(digitsFrom(str, 9, 0))
    ELSE NaN

\* the filters object without any field
NoFilters ==
  [search |-> None, location |-> None, jobType |-> None, experienceLevel |-> None,
   skills |-> None, minSalary |-> None, maxSalary |-> None, startDate |-> None,
   endDate |-> None, deadlineAfter |-> None, sortBy |-> None, excludeJobType |-> None]

\* query.salary = {}; query.salary.min = {$gte: ...}; query.salary.max = {$lte: ...}
salaryCondition(filters) ==
  LET keys == {k \in {"min", "max"} :
                 \/ k = "min" /\ truthy(filters.minSalary)
                 \/ k = "max" /\ truthy(filters.maxSalary)}
  IN  [k \in keys |-> IF k = "min"
                        THEN [op |-> "$gte", value |-> parseInt(filters.minSalary.v)]
                        ELSE [op |-> "$lte", value |-> parseInt(filters.maxSalary.v)]]

\* query.createdAt = {}; query.createdAt.$gte = ...; query.createdAt.$lte = ...
createdAtCondition(filters) ==
  [gte |-> IF truthy(filters.startDate) THEN Some(newDate(filters.startDate.v)) ELSE None,
   lte |-> IF truthy(filters.endDate) THEN Some(newDate(filters.endDate.v)) ELSE None]

\* the jobType condition before the excludeJobType block
jobTypeCondition(filters) ==
  IF filters.jobType.some THEN Some([op |-> "$eq", value |-> filters.jobType.v])
  ELSE None

buildJobSearchQuery(filters) ==
  [isActive |-> TRUE,
   or |-> IF truthy(filters.search)
            THEN Some([regex |-> filters.search.v,
                       fields |-> <<"title", "description", "company", "location">>])
            ELSE None,
   location |-> IF truthy(filters.location) THEN Some(filters.location.v) ELSE None,
   jobType |-> IF filters.excludeJobType.some
                 THEN Some([op |-> "$ne", value |-> filters.excludeJobType.v])
                 ELSE jobTypeCondition(filters),
   experienceLevel |-> filters.experienceLevel,
   skillsRequired |-> filters.skills,
   salary |-> IF truthy(filters.minSalary) \/ truthy(filters.maxSalary)
                THEN Some(salaryCondition(filters))
                ELSE None,
   createdAt |-> IF truthy(filters.startDate) \/ truthy(filters.endDate)
                   THEN Some(createdAtCondition(filters))
                   ELSE None,
   applicationDeadline |-> IF truthy(filters.deadlineAfter)
                             THEN Some(newDate(filters.deadlineAfter.v))
                             ELSE None]

\* {$or: [{f: regex}, ...]}
matchesOr(job, or) ==
  \E i \in 1..Len(or.fields) : regExpTestIgnoreCase(or.regex, job[or.fields[i]])

\* {skillsRequired: {$all: [regex, ...]}}
matchesAll(skillsRequired, patterns) ==
  \A i \in 1..Len(patterns) :
    \E j \in 1..Len(skillsRequired) : regExpTestIgnoreCase(patterns[i], skillsRequired[j])

\* {salary: <document>}: a condition on a field whose value is a document
\* with no operator at its top level asks for a stored document equal to it,
\* field by field; a stored Number never equals a document such as {$gte: n}
equalsDocument(stored, document) ==
  /\ DOMAIN stored = DOMAIN document
  /\ \A k \in DOMAIN document : stored[k] = document[k]

\* {createdAt: {$gte: a, $lte: b}}
matchesRange(value, range) ==
  /\ range.gte.some => (~range.gte.v.nan /\ value >= range.gte.v.n)
  /\ range.lte.some => (~range.lte.v.nan /\ value <= range.lte.v.n)

\* whether the database returns the document for the query
matchesQuery(job, q) ==
  /\ job.isActive = q.isActive
  /\ q.or.some => matchesOr(job, q.or.v)
  /\ q.location.some => regExpTestIgnoreCase(q.location.v, job.location)
  /\ q.jobType.some =>
       IF q.jobType.v.op = "$ne" THEN job.jobType # q.jobType.v.value
       ELSE job.jobType = q.jobType.v.value
  /\ q.experienceLevel.some => job.experienceLevel = q.experienceLevel.v
  /\ q.skillsRequired.some => matchesAll(job.skillsRequired, q.skillsRequired.v)
  /\ q.salary.some => equalsDocument(job.salary, q.salary.v)
  /\ q.createdAt.some => matchesRange(job.createdAt, q.createdAt.v)
  /\ q.applicationDeadline.some =>
       /\ job.applicationDeadline.some
       /\ ~q.applicationDeadline.v.nan
       /\ job.applicationDeadline.v >= q.applicationDeadline.v.n

\* Job.find(q) / {$match: q}: the matching documents in insertion order
matching(q) == LET keep(job) == matchesQuery(job, q) IN SelectSeq(jobs, keep)

----------------------------------------------------------------------------
(* searchUtils.js: buildSortOptions, and how the database sorts *)

sortKey(field, dir) == [field |-> field, dir |-> dir]

sortOptions ==
  [newest |-> << sortKey("createdAt", -1) >>,
   oldest |-> << sortKey("createdAt", 1) >>,
   salaryHigh |-> << sortKey("salary.max", -1), sortKey("salary.min", -1) >>,
   salaryLow |-> << sortKey("salary.min", 1), sortKey("salary.max", 1) >>,
   titleAsc |-> << sortKey("title", 1) >>,
   titleDesc |-> << sortKey("title", -1) >>,
   companyAsc |-> << sortKey("company", 1) >>,
   companyDesc |-> << sortKey("company", -1) >>,
   applicantsHigh |-> << sortKey("applicantsCount", -1) >>,
   applicantsLow |-> << sortKey("applicantsCount", 1) >>,
   viewsHigh |-> << sortKey("viewsCount", -1) >>,
   viewsLow |-> << sortKey("viewsCount", 1) >>]

\* the properties an object literal inherits from Object.prototype: looked up
\* by name they are functions (or the prototype itself), truthy values
ObjectPrototype ==
  {"constructor", "toString", "toLocaleString", "valueOf", "hasOwnProperty",
   "isPrototypeOf", "propertyIsEnumerable", "__proto__"}

\* a sort document
SortPlan(keys) == [inherited |-> None, keys |-> keys]

\* return sortOptions[sortBy] || sortOptions.newest, with sortBy = 'newest'
\* when it is undefined
buildSortOptions(sortBy) ==
  LET name == orDefault(sortBy, "newest")
  IN  IF name \in DOMAIN sortOptions THEN SortPlan(sortOptions[name])
      ELSE IF name \in ObjectPrototype THEN [inherited |-> Some(name), keys |-> <<>>]
      ELSE SortPlan(sortOptions.newest)

\* -1, 0, 1: how string a compares with string b, code unit by code unit
compareStrings(a, b) ==
  LET shorter == Min(Len(a), Len(b))
      differ == {i \in 1..shorter : a[i] # b[i]}
  IN  IF differ = {}
        THEN (IF Len(a) < Len(b) THEN -1 ELSE IF Len(a) > Len(b) THEN 1 ELSE 0)
        ELSE LET i == CHOOSE i \in differ : \A j \in differ : i <= j
             IN  IF charCodeAt(a[i]) < charCodeAt(b[i]) THEN -1 ELSE 1

\* the number at a path of a document, None when the path is missing
numberAt(job, field) ==
  IF field = "salary.min"
    THEN (IF "min" \in DOMAIN job.salary THEN Some(job.salary.min) ELSE None)
  ELSE IF field = "salary.max"
    THEN (IF "max" \in DOMAIN job.salary THEN Some(job.salary.max) ELSE None)
  ELSE Some(job[field])

\* -1, 0, 1: a missing value sorts before every number
compareNumbers(a, b) ==
  IF ~a.some /\ ~b.some THEN 0
  ELSE IF ~a.some THEN -1
  ELSE IF ~b.some THEN 1
  ELSE IF a.v < b.v THEN -1 ELSE IF a.v > b.v THEN 1 ELSE 0

compareField(a, b, field) ==
  IF field \in {"title", "company"} THEN compareStrings(a[field], b[field])
  ELSE compareNumbers(numberAt(a, field), numberAt(b, field))

\* document a comes before document b by the sort document
precedes(a, b, keys) ==
  \E k \in 1..Len(keys) :
    /\ compareField(a, b, keys[k].field) * keys[k].dir = -1
    /\ \A h \in 1..(k - 1) : compareField(a, b, keys[h].field) = 0

\* {$sort: keys} / .sort(keys): documents that no key tells apart come in the
\* given tie order
sortByKeys(arr, keys, tieOrder) ==
  LET n == Len(arr)
      tieBefore(j, i) == IF tieOrder = "natural" THEN j < i ELSE j > i
      before(j, i) ==
        \/ precedes(arr[j], arr[i], keys)
        \/ ~precedes(arr[i], arr[j], keys) /\ tieBefore(j, i)
      rank(i) == 1 + Cardinality({j \in 1..n : j # i /\ before(j, i)})
  IN  [r \in 1..n |-> arr[CHOOSE i \in 1..n : rank(i) = r]]

\* .skip(skip).limit(limit) for skip >= 0 and limit >= 1
skipLimit(arr, skip, limit) ==
  SubSeq(arr, skip + 1, Min(Len(arr), skip + limit))

idsOf(arr) == [i \in 1..Len(arr) |-> arr[i].id]

----------------------------------------------------------------------------
(* job.validator.js: searchJobValidator and validate, on GET / and /search *)

JobTypes == {"full-time", "part-time", "contract", "internship", "remote"}
ExperienceLevels == {"entry", "mid", "senior", "lead"}

PageSizeCap == 50
DefaultPage == 1
DefaultPageSize == 10

\* /^[-+]?(0|[1-9][0-9]*)$/
isIntString(str) ==
  LET signed == Len(str) > 0 /\ str[1] \in {"-", "+"}
      digits == IF signed THEN SubSeq(str, 2, Len(str)) ELSE str
  IN  /\ Len(digits) > 0
      /\ \A i \in 1..Len(digits) : isDigit(digits[i])
      /\ Len(digits) > 1 => digits[1] # "0"

\* isInt({min}) and isInt({min, max})
isIntAtLeast(str, min) == isIntString(str) /\ parseInt(str).n >= min
isIntWithin(str, min, max) == isIntAtLeast(str, min) /\ parseInt(str).n <= max

\* faulty variant: the routes without the validator
searchJobValidator_absent(params) == TRUE

\* no error: every parameter that is present passes its chain (the skills
\* parameter of the model, when present, is an array)
searchJobValidator(params) ==
  /\ params.jobType.some => params.jobType.v \in JobTypes
  /\ params.experienceLevel.some => params.experienceLevel.v \in ExperienceLevels
  /\ params.page.some => isIntAtLeast(params.page.v, 1)
  /\ params.limit.some => isIntWithin(params.limit.v, 1, PageSizeCap)

\* validate: res.status(400).json(...); the request is kept for the properties
ValidationFailed(params) == [status |-> 400, request |-> params]

\* value || fallback on a number: NaN and 0 are falsy
numberOr(value, fallback) == IF value.nan \/ value.n = 0 THEN fallback ELSE value.n

----------------------------------------------------------------------------
(* job.controller.js: getAllJobs and advancedSearch *)

\* req.query without any parameter
NoParams ==
  [search |-> None, location |-> None, jobType |-> None, experienceLevel |-> None,
   skills |-> None, minSalary |-> None, maxSalary |-> None, startDate |-> None,
   endDate |-> None, deadlineAfter |-> None, sortBy |-> None,
   page |-> None, limit |-> None]

\* parseInt(param) with the destructuring default; page and limit reach the
\* handler as the numbers toInt made of them, which parseInt reads back
parseIntOr(param, default) == IF param.some THEN parseInt(param.v) ELSE Num(default)

ServerError == [status |-> 500]

\* const queryObj = {isActive: true}; if (location) ...; if (jobType) ...
queryObjOf(params) ==
  [isActive |-> TRUE,
   or |-> None,
   location |-> IF truthy(params.location) THEN Some(params.location.v) ELSE None,
   jobType |-> jobTypeCondition(params),
   experienceLevel |-> params.experienceLevel,
   skillsRequired |-> params.skills,
   salary |-> None,
   createdAt |-> None,
   applicationDeadline |-> None]

\* Job.find(queryObj), then query.find({$or: [...]}) when search is given
listingConditions(params) ==
  [queryObjOf(params) EXCEPT
     !.or = IF truthy(params.search)
              THEN Some([regex |-> params.search.v,
                         fields |-> <<"title", "description", "company">>])
              ELSE None]

getAllJobsResponse(params, tieOrder) ==
  LET pageNum == numberOr(parseIntOr(params.page, DefaultPage), DefaultPage)
      limitNum == Min(numberOr(parseIntOr(params.limit, DefaultPageSize), DefaultPageSize),
                      PageSizeCap)
      skip == (pageNum - 1) * limitNum
      found == matching(listingConditions(params))
      newestFirst == sortByKeys(found, sortOptions.newest, tieOrder)
      \* the database refuses a negative skip and reads a negative limit as
      \* its absolute value
      page == skipLimit(newestFirst, skip, IF limitNum < 0 THEN 0 - limitNum ELSE limitNum)
      totalJobs == Len(matching(queryObjOf(params)))
  IN  IF skip < 0 THEN ServerError
      ELSE [status |-> 200,
            results |-> Len(page),
            total |-> totalJobs,
            page |-> pageNum,
            pages |-> ceilDiv(totalJobs, limitNum),
            jobs |-> idsOf(page),
            \* kept for the properties: the handler, its request, its skip,
            \* limit and sort, and every document its result query matches
            handler |-> "getAllJobs",
            request |-> params,
            skip |-> skip,
            limit |-> limitNum,
            sort |-> SortPlan(sortOptions.newest),
            population |-> idsOf(found)]

\* const filters = {search, ..., deadlineAfter, sortBy}
searchFiltersOf(params) ==
  [NoFilters EXCEPT
     !.search = params.search, !.location = params.location,
     !.jobType = params.jobType, !.experienceLevel = params.experienceLevel,
     !.skills = params.skills, !.minSalary = params.minSalary,
     !.maxSalary = params.maxSalary, !.startDate = params.startDate,
     !.endDate = params.endDate, !.deadlineAfter = params.deadlineAfter,
     !.sortBy = Some(orDefault(params.sortBy, "newest"))]

advancedSearchResponse(params, tieOrder) ==
  LET pageNum == Max(1, numberOr(parseIntOr(params.page, DefaultPage), DefaultPage))
      limitNum == Min(Max(1, numberOr(parseIntOr(params.limit, DefaultPageSize),
                                      DefaultPageSize)),
                      PageSizeCap)
      skip == (pageNum - 1) * limitNum
      filters == searchFiltersOf(params)
      sort == buildSortOptions(filters.sortBy)
      found == matching(buildJobSearchQuery(filters))
      sorted == sortByKeys(found, sort.keys, tieOrder)
      results == skipLimit(sorted, skip, limitNum)
      totalJobs == Len(found)
  IN  \* a $sort stage that is no sort document: the aggregation fails and
      \* the catch block answers
      IF sort.inherited.some THEN ServerError
      ELSE [status |-> 200,
            results |-> Len(results),
            total |-> totalJobs,
            page |-> pageNum,
            pages |-> ceilDiv(totalJobs, limitNum),
            jobs |-> idsOf(results),
            hasMore |-> skip + limitNum < totalJobs,
            handler |-> "advancedSearch",
            request |-> params,
            skip |-> skip,
            limit |-> limitNum,
            sort |-> sort,
            population |-> idsOf(found)]

\* GET /api/jobs: searchJobValidator, validate, getAllJobs
getAllJobs(params, tieOrder) ==
  /\ response = NoResponse
  /\ reads = NoReads
  /\ response' = IF searchJobValidator(params) THEN getAllJobsResponse(params, tieOrder)
                 ELSE ValidationFailed(params)
  /\ UNCHANGED <<jobs, resume, reads>>
  /\ UNCHANGED <<scorerVars, pipeline, accountVars>>

\* GET /api/jobs/search: searchJobValidator, validate, advancedSearch
advancedSearch(params, tieOrder) ==
  /\ response = NoResponse
  /\ reads = NoReads
  /\ response' = IF searchJobValidator(params) THEN advancedSearchResponse(params, tieOrder)
                 ELSE ValidationFailed(params)
  /\ UNCHANGED <<jobs, resume, reads>>
  /\ UNCHANGED <<scorerVars, pipeline, accountVars>>

----------------------------------------------------------------------------
(* getSearchStats: the controller and the five reads of searchUtils.js *)

TopLocationsLimit == 10

\* const filters = {search, location, jobType, experienceLevel, skills,
\* minSalary, maxSalary}
statsFiltersOf(params) ==
  [NoFilters EXCEPT
     !.search = params.search, !.location = params.location,
     !.jobType = params.jobType, !.experienceLevel = params.experienceLevel,
     !.skills = params.skills, !.minSalary = params.minSalary,
     !.maxSalary = params.maxSalary]

\* Job.countDocuments(query)
countDocuments(q) == Len(matching(q))

\* [{$match: query}, {$group: {_id: '$field', count: {$sum: 1}}},
\*  {$sort: {count: -1}}]
groupCounts(q, field, tieOrder) ==
  LET found == matching(q)
      n == Len(found)
      firsts == {i \in 1..n : \A j \in 1..(i - 1) : found[j][field] # found[i][field]}
      nth(r) == CHOOSE i \in firsts : Cardinality({j \in firsts : j <= i}) = r
      count(v) == Cardinality({i \in 1..n : found[i][field] = v})
      groups == [r \in 1..Cardinality(firsts) |->
                   [id |-> found[nth(r)][field], count |-> count(found[nth(r)][field])]]
  IN  sortDescendingTies(groups, [r \in 1..Len(groups) |-> groups[r].count], tieOrder)

\* the location groups, {$limit: 10}
topGroups(groups) == SubSeq(groups, 1, Min(Len(groups), TopLocationsLimit))

RECURSIVE sumOf(_, _)
sumOf(f, S) ==
  IF S = {} THEN 0
  ELSE LET x == CHOOSE x \in S : TRUE IN f[x] + sumOf(f, S \ {x})

\* [{$match: query}, {$group: {_id: null, minSalary: {$min: '$salary.min'},
\*  maxSalary: {$max: '$salary.max'}, avgSalary: {$avg: '$salary.min'}}}]:
\* no group without a document, null for a path no document has
salaryGroup(q) ==
  LET found == matching(q)
      withMin == {i \in 1..Len(found) : "min" \in DOMAIN found[i].salary}
      withMax == {i \in 1..Len(found) : "max" \in DOMAIN found[i].salary}
      minOf == [i \in withMin |-> found[i].salary.min]
  IN  IF Len(found) = 0 THEN <<>>
      ELSE << [minSalary |-> IF withMin = {} THEN None
                             ELSE Some(CHOOSE m \in {minOf[i] : i \in withMin} :
                                         \A i \in withMin : m <= minOf[i]),
               maxSalary |-> IF withMax = {} THEN None
                             ELSE Some(CHOOSE m \in {found[i].salary.max : i \in withMax} :
                                         \A i \in withMax : m >= found[i].salary.max),
               \* the average as the fraction sum / count
               avgSalary |-> IF withMin = {} THEN None
                             ELSE Some([sum |-> sumOf(minOf, withMin),
                                        count |-> Cardinality(withMin)])] >>

\* groups.reduce((acc, curr) => {acc[curr._id] = curr.count; return acc}, {})
reduceCounts(groups) ==
  [v \in {groups[i].id : i \in 1..Len(groups)} |->
     (CHOOSE g \in Range(groups) : g.id = v).count]

NoSalaryRange ==
  [minSalary |-> Some(0), maxSalary |-> Some(0),
   avgSalary |-> Some([sum |-> 0, count |-> 1])]

\* the statistics request accepted, none of its reads completed
startedReads(params) ==
  [inFlight |-> TRUE, request |-> params,
   totalJobs |-> None, jobTypes |-> None, experienceLevels |-> None,
   locations |-> None, salaryRange |-> None]

ReadNames == {"totalJobs", "jobTypes", "experienceLevels", "locations", "salaryRange"}

\* what one of the five reads of Promise.all returns on the collection as it
\* is when the read runs
readResult(name, q, tieOrder) ==
  IF name = "totalJobs" THEN countDocuments(q)
  ELSE IF name = "jobTypes" THEN groupCounts(q, "jobType", tieOrder)
  ELSE IF name = "experienceLevels" THEN groupCounts(q, "experienceLevel", tieOrder)
  ELSE IF name = "locations" THEN topGroups(groupCounts(q, "location", tieOrder))
  ELSE salaryGroup(q)

\* the value getSearchStats returns, in the response of the controller
searchStatsResponse(done) ==
  [status |-> 200,
   totalJobs |-> done.totalJobs.v,
   jobTypes |-> reduceCounts(done.jobTypes.v),
   experienceLevels |-> reduceCounts(done.experienceLevels.v),
   topLocations |-> [i \in 1..Len(done.locations.v) |->
                       [location |-> done.locations.v[i].id,
                        count |-> done.locations.v[i].count]],
   salaryRange |-> IF Len(done.salaryRange.v) > 0 THEN done.salaryRange.v[1]
                   ELSE NoSalaryRange,
   handler |-> "getSearchStats",
   request |-> done.request]

\* GET /api/jobs/search/stats reaches the controller
beginSearchStats(params) ==
  /\ response = NoResponse
  /\ reads = NoReads
  /\ reads' = startedReads(params)
  /\ UNCHANGED <<jobs, resume, response>>
  /\ UNCHANGED <<scorerVars, pipeline, accountVars>>

\* one of the reads of Promise.all runs
readJobs(name, tieOrder) ==
  /\ reads # NoReads
  /\ ~reads[name].some
  /\ reads' = [reads EXCEPT
                 ![name] = Some(readResult(name,
                                           buildJobSearchQuery(statsFiltersOf(reads.request)),
                                           tieOrder))]
  /\ UNCHANGED <<jobs, resume, response>>
  /\ UNCHANGED <<scorerVars, pipeline, accountVars>>

\* Promise.all resolves and the controller answers
endSearchStats ==
  /\ reads # NoReads
  /\ \A name \in ReadNames : reads[name].some
  /\ response' = searchStatsResponse(reads)
  /\ reads' = NoReads
  /\ UNCHANGED <<jobs, resume>>
  /\ UNCHANGED <<scorerVars, pipeline, accountVars>>

----------------------------------------------------------------------------
(* The job search as a state machine: jobs are posted, then listed, searched
   and counted, one request at a time *)

\* most jobs in the Job collection of the search
MaxSearchJobs == 2

tContract == "contract"

\* a remote job in Lahore with a salary and a deadline, a full-time job in
\* Karachi with a lower salary, a contract job in Karachi without a salary
SearchBodies ==
  { [title |-> wDev, description |-> wBuild, company |-> wAcme,
     location |-> lLahore, jobType |-> Some(tRemote), experienceLevel |-> None,
     salary |-> Some([min |-> 60000, max |-> 90000]),
     skillsRequired |-> << sJavascript >>, applicationDeadline |-> Some(20)],
    [title |-> wChef, description |-> wCook, company |-> wAcme,
     location |-> lKarachi, jobType |-> None, experienceLevel |-> Some("senior"),
     salary |-> Some([min |-> 40000, max |-> 45000]),
     skillsRequired |-> << sDocker >>, applicationDeadline |-> None],
    [title |-> wDev, description |-> wBuild, company |-> wAcme,
     location |-> lKarachi, jobType |-> Some(tContract), experienceLevel |-> None,
     salary |-> None,
     skillsRequired |-> << sJavascript >>, applicationDeadline |-> None] }

pLahore == <<"l","a","h","o","r","e">>
pDev == <<"d","e","v">>
p50000 == <<"5","0","0","0","0">>
p95000 == <<"9","5","0","0","0">>
pDay1 == <<"1","9","7","0","-","0","1","-","0","1">>
pDay2 == <<"1","9","7","0","-","0","1","-","0","2">>
pDay10 == <<"1","9","7","0","-","0","1","-","1","0">>

\* the twelve sort keys, two names of Object.prototype, an unknown name
SortByInputs == DOMAIN sortOptions \cup {"constructor", "toString", "popular"}

\* request parameters that filter and sort, without page and limit
FilterParams ==
  { NoParams,
    [NoParams EXCEPT !.search = Some(pLahore)],
    [NoParams EXCEPT !.search = Some(pDev)],
    [NoParams EXCEPT !.search = Some(<<>>)],
    [NoParams EXCEPT !.location = Some(pLahore)],
    [NoParams EXCEPT !.jobType = Some(tRemote)],
    [NoParams EXCEPT !.jobType = Some("freelance")],
    [NoParams EXCEPT !.experienceLevel = Some("senior"), !.skills = Some(<< sDocker >>)],
    [NoParams EXCEPT !.jobType = Some(tRemote), !.minSalary = Some(p50000)],
    [NoParams EXCEPT !.maxSalary = Some(p50000)],
    [NoParams EXCEPT !.minSalary = Some(p50000), !.maxSalary = Some(p95000)],
    [NoParams EXCEPT !.startDate = Some(pDay2)],
    [NoParams EXCEPT !.endDate = Some(pDay1)],
    [NoParams EXCEPT !.deadlineAfter = Some(pDay10)] }
  \cup {[NoParams EXCEPT !.sortBy = Some(name)] : name \in SortByInputs}

PageParamInputs == {None, Some(<<"1">>), Some(<<"2">>), Some(<<"0">>), Some(<<"-","1">>),
               Some(<<"a","b","c">>)}
LimitParamInputs == {None, Some(<<"1">>), Some(<<"5","0">>), Some(<<"0">>), Some(<<"-","5">>),
                 Some(<<"1","0","0">>), Some(<<"a","b","c">>)}

\* the requests of the listing routes: every filter on the first page, and
\* every page and limit on two of the filters
ListingRequests ==
  FilterParams
  \cup {[f EXCEPT !.page = page, !.limit = limit] :
          f \in {NoParams, [NoParams EXCEPT !.search = Some(pDev)]},
          page \in PageParamInputs, limit \in LimitParamInputs}

\* the requests of the statistics route
StatsRequests ==
  { NoParams,
    [NoParams EXCEPT !.search = Some(pDev)],
    [NoParams EXCEPT !.jobType = Some(tRemote)],
    [NoParams EXCEPT !.jobType = Some(tRemote), !.minSalary = Some(p50000)],
    [NoParams EXCEPT !.startDate = Some(pDay2)],
    [NoParams EXCEPT !.endDate = Some(pDay1)],
    [NoParams EXCEPT !.deadlineAfter = Some(pDay10)] }

\* the server started on an empty Job collection
InitSearch ==
  /\ resumeSkills = None
  /\ jobSkills = None
  /\ matchResult = NoResult
  /\ pc = "idle"
  /\ jobs = <<>>
  /\ resume = None
  /\ response = NoResponse
  /\ reads = NoReads
  /\ pipeline = None
  /\ applications = <<>>
  /\ users = <<>>
  /\ requests = <<>>

NextSearch ==
  \/ \E body \in SearchBodies : reads = NoReads /\ postJob(body, MaxSearchJobs)
  \/ \E params \in ListingRequests, tieOrder \in TieOrders : getAllJobs(params, tieOrder)
  \/ \E params \in ListingRequests, tieOrder \in TieOrders : advancedSearch(params, tieOrder)
  \/ \E params \in StatsRequests : beginSearchStats(params)
  \/ \E name \in ReadNames, tieOrder \in TieOrders : readJobs(name, tieOrder)
  \/ endSearchStats
  \/ sendResponse

SpecSearch == InitSearch /\ [][NextSearch]_vars

----------------------------------------------------------------------------
(* Properties of the job search *)

\* a page of jobs was answered by getAllJobs or advancedSearch
listed == response.status = 200 /\ response.handler \in {"getAllJobs", "advancedSearch"}

listedBy(handler) == response.status = 200 /\ response.handler = handler

counted == response.status = 200 /\ response.handler = "getSearchStats"

rejected == response.status = 400

\* the quotient a / b rounded up, for a >= 0 and b > 0
roundedUp(a, b) == CHOOSE q \in 0..a : q * b >= a /\ (q = 0 \/ (q - 1) * b < a)

\* C12 (as claimed): in getAllJobs and advancedSearch the reported total is
\* the number of jobs that satisfy every filter of the result query, the
\* search term included, and pages is total / limit rounded up.
C12_TotalOfResultFilter ==
  listed =>
    /\ response.total = Len(response.population)
    /\ response.pages = roundedUp(response.total, response.limit)

\* the jobs advancedSearch returns over all its pages for the request
searchPopulation(params) == matching(buildJobSearchQuery(searchFiltersOf(params)))

\* C13 (as claimed): the statistics are computed over exactly the jobs that
\* advancedSearch returns for the same parameters, startDate, endDate and
\* deadlineAfter included.
C13_StatsOverSearchPopulation ==
  counted =>
    LET population == searchPopulation(response.request)
        ofType(t) == {i \in 1..Len(population) : population[i].jobType = t}
    IN  /\ response.totalJobs = Len(population)
        /\ \A t \in JobTypes :
             IF ofType(t) = {} THEN t \notin DOMAIN response.jobTypes
             ELSE t \in DOMAIN response.jobTypes
                  /\ response.jobTypes[t] = Cardinality(ofType(t))

\* the page of jobs was cut with page >= 1, 1 <= pageSize <= 50 and
\* skip = (page - 1) * pageSize >= 0
pagedWithinLimits ==
  /\ response.page >= 1
  /\ response.limit >= 1 /\ response.limit <= 50
  /\ response.skip = (response.page - 1) * response.limit
  /\ response.skip >= 0
  /\ response.results <= response.limit

\* the parameter is a decimal integer of lo..hi
integerWithin(param, lo, hi) ==
  /\ isIntString(param.v)
  /\ parseInt(param.v).n >= lo /\ parseInt(param.v).n <= hi

pageAccepted(params) ==
  params.page.some => (isIntString(params.page.v) /\ parseInt(params.page.v).n >= 1)
limitAccepted(params) == params.limit.some => integerWithin(params.limit, 1, 50)
enumsAccepted(params) ==
  /\ params.jobType.some => params.jobType.v \in JobTypes
  /\ params.experienceLevel.some => params.experienceLevel.v \in ExperienceLevels

\* C15 (as claimed): whatever page and limit a listing request carries, it is
\* not rejected on their account and its page of jobs is cut with page >= 1
\* and 1 <= pageSize <= 50.
C15_PagingClamped ==
  /\ rejected => ~enumsAccepted(response.request)
  /\ listed => pagedWithinLimits

\* C15 (amended): a listing request whose page is no integer >= 1 or whose
\* limit is no integer of 1..50 is rejected with status 400 before the
\* handler runs; every other listing request is cut with page >= 1,
\* 1 <= pageSize <= 50 and skip >= 0, a missing page being 1 and a missing
\* limit 10.
C15_PagingValidated ==
  /\ rejected => ~(pageAccepted(response.request) /\ limitAccepted(response.request)
                   /\ enumsAccepted(response.request))
  /\ listed =>
       /\ pageAccepted(response.request) /\ limitAccepted(response.request)
       /\ pagedWithinLimits
       /\ response.page = (IF response.request.page.some
                             THEN parseInt(response.request.page.v).n ELSE 1)
       /\ response.limit = (IF response.request.limit.some
                              THEN parseInt(response.request.limit.v).n ELSE 10)

\* C15 witness: a request for 100 jobs a page, rejected
C15_Witness ==
  /\ rejected
  /\ response.request.limit = Some(<<"1","0","0">>)
  /\ ~response.request.page.some
  /\ enumsAccepted(response.request)

\* the term occurs in the text, letter case ignored
occursIn(term, text) ==
  \E off \in 0..(Len(text) - Len(term)) :
    toLowerCase(SubSeq(text, off + 1, off + Len(term))) = toLowerCase(term)

\* the request carries a search term and nothing else
searchOnly(params) ==
  /\ truthy(params.search)
  /\ params = [NoParams EXCEPT !.search = params.search]

\* C17 (as claimed): the search term is matched, letter case ignored, as a
\* substring of title, description and company, and of location too in
\* getAllJobs only.
C17_SearchedFields ==
  (listed /\ searchOnly(response.request)) =>
    LET term == response.request.search.v
        found(job) ==
          /\ job.isActive
          /\ \/ occursIn(term, job.title)
             \/ occursIn(term, job.description)
             \/ occursIn(term, job.company)
             \/ response.handler = "getAllJobs" /\ occursIn(term, job.location)
    IN  Range(response.population) = {job.id : job \in {j \in Range(jobs) : found(j)}}

\* the request carries a salary limit and, at most, a job type besides
salaryOnly(params) ==
  /\ truthy(params.minSalary) \/ truthy(params.maxSalary)
  /\ params = [NoParams EXCEPT !.minSalary = params.minSalary,
                               !.maxSalary = params.maxSalary,
                               !.jobType = params.jobType]

\* C18 (as claimed): with minSalary and/or maxSalary a job passes the search
\* iff its salary.min >= minSalary and its salary.max <= maxSalary, each when
\* given; {jobType: 'remote', minSalary: 50000} returns exactly the active
\* remote jobs with salary.min >= 50000.
C18_SalaryRange ==
  (listedBy("advancedSearch") /\ salaryOnly(response.request)) =>
    LET params == response.request
        passes(job) ==
          /\ job.isActive
          /\ params.jobType.some => job.jobType = params.jobType.v
          /\ truthy(params.minSalary) =>
               /\ "min" \in DOMAIN job.salary
               /\ job.salary.min >= parseInt(params.minSalary.v).n
          /\ truthy(params.maxSalary) =>
               /\ "max" \in DOMAIN job.salary
               /\ job.salary.max <= parseInt(params.maxSalary.v).n
    IN  Range(response.population) = {job.id : job \in {j \in Range(jobs) : passes(j)}}

----------------------------------------------------------------------------
(* searchUtils.js: one call of buildSearchAggregation on a filters object *)

\* the $match and $sort stages of the pipeline ($lookup, $unwind and $project
\* neither drop nor reorder a job), with the argument of the call
buildSearchAggregation(filters) ==
  [filters |-> filters,
   match |-> buildJobSearchQuery(filters),
   sort |-> buildSortOptions(filters.sortBy)]

\* filters objects a caller of the module can pass
FilterObjects ==
  { [NoFilters EXCEPT !.search = search, !.jobType = jobType,
                      !.experienceLevel = experienceLevel,
                      !.excludeJobType = excludeJobType, !.sortBy = sortBy] :
      search \in {None, Some(pDev)},
      jobType \in {None, Some(tRemote), Some(tContract)},
      experienceLevel \in {None, Some("senior")},
      excludeJobType \in {None, Some(tRemote), Some(tContract)},
      sortBy \in {None} \cup {Some(name) : name \in SortByInputs} }

BuildSearchAggregation(filters) ==
  /\ pipeline = None
  /\ pipeline' = Some(buildSearchAggregation(filters))
  /\ UNCHANGED <<jobs, resume, response, reads>>
  /\ UNCHANGED <<scorerVars, accountVars>>

NextQuery == \E filters \in FilterObjects : BuildSearchAggregation(filters)

SpecQuery == InitSearch /\ [][NextQuery]_vars

----------------------------------------------------------------------------
(* Properties of the built query and sort *)

built == pipeline.some

\* one stored document for each kind of job of the search
SampleDocuments == {jobDocument(body, 1) : body \in SearchBodies}

\* C19 (as claimed): with a jobType (experienceLevel) filter the built query
\* lets a job pass only if its jobType (experienceLevel) equals the given
\* value, whatever else the filters object holds.
C19_ExactJobType ==
  built =>
    LET filters == pipeline.v.filters
        passing == {job \in SampleDocuments : matchesQuery(job, pipeline.v.match)}
    IN  /\ filters.jobType.some =>
             \A job \in passing : job.jobType = filters.jobType.v
        /\ filters.experienceLevel.some =>
             \A job \in passing : job.experienceLevel = filters.experienceLevel.v

EnumeratedSortKeys ==
  {"newest", "oldest", "salaryHigh", "salaryLow", "titleAsc", "titleDesc",
   "companyAsc", "companyDesc", "applicantsHigh", "applicantsLow",
   "viewsHigh", "viewsLow"}

\* C20 (as claimed): buildSortOptions returns the sort document of sortBy when
\* it is one of the twelve keys and {createdAt: -1} for every other value,
\* 'constructor', 'toString' and a missing value included.
C20_SortFallback ==
  built =>
    LET sortBy == pipeline.v.filters.sortBy
    IN  pipeline.v.sort =
          [inherited |-> None,
           keys |-> IF sortBy.some /\ sortBy.v \in EnumeratedSortKeys
                      THEN sortOptions[sortBy.v]
                      ELSE << [field |-> "createdAt", dir |-> -1] >>]

----------------------------------------------------------------------------
(* The statistics request next to the writers of the Job collection: jobs
   are posted, deactivated and deleted between the reads of Promise.all *)

\* most jobs in the Job collection next to the statistics request
MaxStatsJobs == 2

\* Job.findByIdAndDelete(req.params.id)
deleteJob(i) ==
  /\ response = NoResponse
  /\ i \in 1..Len(jobs)
  /\ jobs' = [k \in 1..(Len(jobs) - 1) |-> IF k < i THEN jobs[k] ELSE jobs[k + 1]]
  /\ UNCHANGED <<resume, response, reads>>
  /\ UNCHANGED <<scorerVars, pipeline, accountVars>>

\* a remote job and a full-time job for seniors
StatsBodies ==
  { [title |-> wDev, description |-> wBuild, company |-> wAcme,
     location |-> lLahore, jobType |-> Some(tRemote), experienceLevel |-> None,
     salary |-> None, skillsRequired |-> << sJavascript >>,
     applicationDeadline |-> None],
    [title |-> wDev, description |-> wBuild, company |-> wAcme,
     location |-> lLahore, jobType |-> None, experienceLevel |-> Some("senior"),
     salary |-> None, skillsRequired |-> << sJavascript >>,
     applicationDeadline |-> None] }

ConcurrentStatsRequests == {NoParams, [NoParams EXCEPT !.jobType = Some(tRemote)]}

NextStats ==
  \/ \E body \in StatsBodies : postJob(body, MaxStatsJobs)
  \/ \E i \in 1..MaxStatsJobs : deactivateJob(i)
  \/ \E i \in 1..MaxStatsJobs : deleteJob(i)
  \/ \E params \in ConcurrentStatsRequests : beginSearchStats(params)
  \/ \E name \in ReadNames, tieOrder \in TieOrders : readJobs(name, tieOrder)
  \/ endSearchStats
  \/ sendResponse

SpecStats == InitSearch /\ [][NextStats]_vars

----------------------------------------------------------------------------
(* Properties of the statistics *)

\* the sum of the counts of an object of counts
totalOf(counts) == sumOf(counts, DOMAIN counts)

\* C14 (as claimed): in every result of getSearchStats the counts by jobType
\* add up to totalJobs and so do the counts by experienceLevel, also when
\* jobs are created, updated or deleted between its reads.
C14_FacetSums ==
  counted =>
    /\ totalOf(response.jobTypes) = response.totalJobs
    /\ totalOf(response.experienceLevels) = response.totalJobs

----------------------------------------------------------------------------
(* Paging through a search: more jobs than one page of ten holds *)

\* most jobs in the Job collection that is paged through
MaxPagedJobs == 11

p10 == <<"1","0">>

\* jobs that differ in nothing but their time of creation
PagedBodies == { bodyRequiring(<< sJavascript >>) }

\* the first and the second page of ten, for every sort key
PagingRequests ==
  { [NoParams EXCEPT !.sortBy = Some(name), !.page = Some(page), !.limit = Some(p10)] :
      name \in DOMAIN sortOptions, page \in {<<"1">>, <<"2">>} }

NextPaging ==
  \/ \E body \in PagedBodies : postJob(body, MaxPagedJobs)
  \/ \E params \in PagingRequests, tieOrder \in TieOrders : advancedSearch(params, tieOrder)
  \/ sendResponse

SpecPaging == InitSearch /\ [][NextPaging]_vars

----------------------------------------------------------------------------
(* Properties of paging *)

\* the jobs advancedSearch can return as the first page of the request, on
\* the collection as it is
firstPages(params) ==
  {Range(advancedSearchResponse([params EXCEPT !.page = Some(<<"1">>)], tieOrder).jobs) :
     tieOrder \in TieOrders}

\* C16 (as claimed): with pageSize = 10, on a fixed collection, filter and
\* sort key, no job of page 2 is also a job of page 1, for every enumerated
\* sort key, keys of equal values included, and pages is total / 10 rounded
\* up.
C16_PagesDisjoint ==
  (listedBy("advancedSearch") /\ response.limit = 10) =>
    /\ response.pages = roundedUp(response.total, 10)
    /\ response.page = 2 =>
         \A first \in firstPages(response.request) : first \cap Range(response.jobs) = {}

----------------------------------------------------------------------------
(* recommendation.controller.js: getSimilarJobs and getTrendingJobs;
   searchUtils.js: getSkillSuggestions *)

DefaultSimilarLimit == <<"5">>
DefaultTrendingLimit == <<"1","0">>
SkillSuggestionsLimit == 20

\* what the database does with the number given to .limit(): none for 0, the
\* absolute value for a negative number
cursorLimit(arr, n) ==
  IF n = 0 THEN arr
  ELSE SubSeq(arr, 1, Min(Len(arr), IF n < 0 THEN 0 - n ELSE n))

\* what a find with .limit(NaN) may end with: the cursor refused, or no limit
NaNLimitOutcomes == {"refused", "unlimited"}

\* Job.findById(jobId)
findById(jobId) ==
  IF \E i \in 1..Len(jobs) : jobs[i].id = jobId
    THEN Some(jobs[CHOOSE i \in 1..Len(jobs) : jobs[i].id = jobId])
    ELSE None

\* {skillsRequired: {$in: list}}: some element of the stored array is in list
matchesIn(skillsRequired, list) ==
  \E i \in 1..Len(skillsRequired) : \E j \in 1..Len(list) : skillsRequired[i] = list[j]

\* faulty variant: the reference job not excluded
matchesSimilar_withReference(job, referenceJob) ==
  /\ job.isActive
  /\ matchesIn(job.skillsRequired, referenceJob.skillsRequired)
  /\ job.jobType = referenceJob.jobType
  /\ job.location = referenceJob.location

\* {_id: {$ne: jobId}, isActive: true, skillsRequired: {$in: ...},
\*  jobType: referenceJob.jobType, location: referenceJob.location}
matchesSimilar(job, referenceJob) ==
  /\ job.id # referenceJob.id
  /\ job.isActive
  /\ matchesIn(job.skillsRequired, referenceJob.skillsRequired)
  /\ job.jobType = referenceJob.jobType
  /\ job.location = referenceJob.location

similarJobsResponse(jobId, limitParam, nanOutcome, tieOrder) ==
  LET referenceJob == findById(jobId)
      limit == parseInt(orDefault(limitParam, DefaultSimilarLimit))
  IN  IF ~referenceJob.some THEN [status |-> 404]
      ELSE IF limit.nan /\ nanOutcome = "refused" THEN ServerError
      ELSE LET keep(job) == matchesSimilar(job, referenceJob.v)
               found == SelectSeq(jobs, keep)
               newestFirst == sortByKeys(found, sortOptions.newest, tieOrder)
               similarJobs == IF limit.nan THEN newestFirst
                              ELSE cursorLimit(newestFirst, limit.n)
           IN  [status |-> 200,
                results |-> Len(similarJobs),
                jobs |-> idsOf(similarJobs),
                referenceJob |-> [id |-> referenceJob.v.id,
                                  skills |-> referenceJob.v.skillsRequired],
                handler |-> "getSimilarJobs"]

getSimilarJobs(jobId, limitParam, nanOutcome, tieOrder) ==
  /\ response = NoResponse
  /\ reads = NoReads
  /\ response' = similarJobsResponse(jobId, limitParam, nanOutcome, tieOrder)
  /\ UNCHANGED <<jobs, resume, reads>>
  /\ UNCHANGED <<scorerVars, pipeline, accountVars>>

trendingJobsResponse(limitParam, sortBy, nanOutcome, tieOrder) ==
  LET limit == parseInt(orDefault(limitParam, DefaultTrendingLimit))
      sortField == IF orDefault(sortBy, "views") = "applications"
                     THEN "applicantsCount" ELSE "viewsCount"
      found == activeJobs
      sorted == sortDescendingTies(found, [i \in 1..Len(found) |-> found[i][sortField]],
                                   tieOrder)
      trending == IF limit.nan THEN sorted ELSE cursorLimit(sorted, limit.n)
  IN  IF limit.nan /\ nanOutcome = "refused" THEN ServerError
      ELSE [status |-> 200,
            results |-> Len(trending),
            jobs |-> idsOf(trending),
            sortBy |-> orDefault(sortBy, "views"),
            handler |-> "getTrendingJobs"]

getTrendingJobs(limitParam, sortBy, nanOutcome, tieOrder) ==
  /\ response = NoResponse
  /\ reads = NoReads
  /\ response' = trendingJobsResponse(limitParam, sortBy, nanOutcome, tieOrder)
  /\ UNCHANGED <<jobs, resume, reads>>
  /\ UNCHANGED <<scorerVars, pipeline, accountVars>>

\* {$unwind: '$skillsRequired'}: one document per element of the array
RECURSIVE unwindSkills(_)
unwindSkills(docs) ==
  IF docs = <<>> THEN <<>>
  ELSE [i \in 1..Len(Head(docs).skillsRequired) |->
          [id |-> Head(docs).id, skillsRequired |-> Head(docs).skillsRequired[i]]]
       \o unwindSkills(Tail(docs))

\* {$group: {_id: '$skillsRequired', count: {$sum: 1}}}, {$sort: {count: -1}},
\* {$limit: 20}
groupSkills(unwound, tieOrder) ==
  LET n == Len(unwound)
      firsts == {i \in 1..n :
                   \A j \in 1..(i - 1) : unwound[j].skillsRequired # unwound[i].skillsRequired}
      nth(r) == CHOOSE i \in firsts : Cardinality({j \in firsts : j <= i}) = r
      count(v) == Cardinality({i \in 1..n : unwound[i].skillsRequired = v})
      groups == [r \in 1..Cardinality(firsts) |->
                   [id |-> unwound[nth(r)].skillsRequired,
                    count |-> count(unwound[nth(r)].skillsRequired)]]
      sorted == sortDescendingTies(groups, [r \in 1..Len(groups) |-> groups[r].count],
                                   tieOrder)
  IN  SubSeq(sorted, 1, Min(Len(sorted), SkillSuggestionsLimit))

\* const filters = {search, location, jobType, experienceLevel}
suggestionFiltersOf(params) ==
  [NoFilters EXCEPT
     !.search = params.search, !.location = params.location,
     !.jobType = params.jobType, !.experienceLevel = params.experienceLevel]

skillSuggestionsResponse(params, tieOrder) ==
  LET found == matching(buildJobSearchQuery(suggestionFiltersOf(params)))
      skills == groupSkills(unwindSkills(found), tieOrder)
  IN  [status |-> 200,
       skills |-> [i \in 1..Len(skills) |-> [skill |-> skills[i].id,
                                              count |-> skills[i].count]],
       total |-> Len(skills),
       handler |-> "getSkillSuggestions",
       request |-> params]

getSkillSuggestions(params, tieOrder) ==
  /\ response = NoResponse
  /\ reads = NoReads
  /\ response' = skillSuggestionsResponse(params, tieOrder)
  /\ UNCHANGED <<jobs, resume, reads>>
  /\ UNCHANGED <<scorerVars, pipeline, accountVars>>

----------------------------------------------------------------------------
(* The reading handlers next to jobs that are posted and deactivated *)

\* most jobs in the Job collection of the reading handlers
MaxReadJobs == 2

ReadParams ==
  {NoParams, [NoParams EXCEPT !.jobType = Some(tRemote)],
   [NoParams EXCEPT !.search = Some(pDev)]}

ReadQueries == {Query(Absent, m, Absent, Absent, Absent) : m \in {Absent, Some(<<"0">>)}}

ReadLimits == {None, Some(<<"1">>), Some(<<"x">>)}

TrendingSortInputs == {None, Some("applications")}

NextReads ==
  \/ \E body \in StatsBodies : reads = NoReads /\ postJob(body, MaxReadJobs)
  \/ \E i \in 1..MaxReadJobs : deactivateJob(i)
  \/ \E params \in ReadParams, tieOrder \in TieOrders : getAllJobs(params, tieOrder)
  \/ \E params \in ReadParams, tieOrder \in TieOrders : advancedSearch(params, tieOrder)
  \/ beginSearchStats(NoParams)
  \/ \E name \in ReadNames, tieOrder \in TieOrders : readJobs(name, tieOrder)
  \/ endSearchStats
  \/ \E params \in ReadParams, tieOrder \in TieOrders : getSkillSuggestions(params, tieOrder)
  \/ \E query \in ReadQueries : reads = NoReads /\ getRecommendedJobs(query)
  \/ \E jobId \in 1..MaxReadJobs, limit \in ReadLimits, nanOutcome \in NaNLimitOutcomes,
        tieOrder \in TieOrders : getSimilarJobs(jobId, limit, nanOutcome, tieOrder)
  \/ \E limit \in ReadLimits, sortBy \in TrendingSortInputs,
        nanOutcome \in NaNLimitOutcomes, tieOrder \in TieOrders :
          getTrendingJobs(limit, sortBy, nanOutcome, tieOrder)
  \/ \E tieOrder \in TieOrders : reads = NoReads /\ getPersonalizedFeed(tieOrder)
  \/ sendResponse

SpecReads == InitPortal /\ [][NextReads]_vars

----------------------------------------------------------------------------
(* Properties of the reading handlers *)

activeIds == {jobs[i].id : i \in {k \in 1..Len(jobs) : jobs[k].isActive}}

inactiveIds == {jobs[i].id : i \in {k \in 1..Len(jobs) : ~jobs[k].isActive}}

answered == response.status = 200

answeredBy(handler) ==
  answered /\ "handler" \in DOMAIN response /\ response.handler = handler

\* the ids of the jobs of a tier of the feed
tierIds(tier) == {tier.jobs[i].id : i \in 1..Len(tier.jobs)}

\* the ids of the jobs in the response
returnedIds ==
  IF "fetched" \in DOMAIN response
    THEN {response.jobs[i].job.id : i \in 1..Len(response.jobs)}
  ELSE IF "highMatch" \in DOMAIN response
    THEN tierIds(response.highMatch) \cup tierIds(response.mediumMatch)
         \cup tierIds(response.lowMatch) \cup Range(response.trending.jobs)
  ELSE IF "jobs" \in DOMAIN response THEN Range(response.jobs)
  ELSE {}

\* the numbers of jobs the response states
returnedCounts ==
  IF "fetched" \in DOMAIN response
    THEN {response.results, response.totalAvailable, Len(response.fetched)}
  ELSE IF "highMatch" \in DOMAIN response
    THEN {response.highMatch.count + response.mediumMatch.count + response.lowMatch.count,
          response.trending.count, response.totalJobsAvailable}
  ELSE IF "skills" \in DOMAIN response
    THEN {response.skills[i].count : i \in 1..Len(response.skills)}
  ELSE IF "total" \in DOMAIN response THEN {response.results, response.total}
  ELSE {response.results}

\* the response of a handler that reads in one step names and counts active
\* jobs only
answersActive ==
  (answered /\ ~answeredBy("getSearchStats")) =>
    /\ returnedIds \subseteq activeIds
    /\ \A c \in returnedCounts : c <= Cardinality(activeIds)
    /\ "skills" \in DOMAIN response =>
         \A i \in 1..Len(response.skills) :
           response.skills[i].count
             <= Cardinality({k \in 1..Len(jobs) :
                               /\ jobs[k].isActive
                               /\ response.skills[i].skill \in Range(jobs[k].skillsRequired)})

\* what a read of the statistics counted
readTotal(name, result) ==
  IF name = "totalJobs" THEN result
  ELSE IF name = "salaryRange" THEN Len(result)
  ELSE sumOf([i \in 1..Len(result) |-> result[i].count], 1..Len(result))

readField(name) ==
  IF name = "jobTypes" THEN "jobType"
  ELSE IF name = "experienceLevels" THEN "experienceLevel"
  ELSE "location"

\* a read of the statistics that completes in this step counts jobs that are
\* active when it runs
readsActive ==
  \A name \in ReadNames :
    (reads.inFlight /\ ~reads[name].some /\ reads'.inFlight /\ reads'[name].some) =>
      /\ readTotal(name, reads'[name].v) <= Cardinality(activeIds)
      /\ name \in {"jobTypes", "experienceLevels", "locations"} =>
           \A i \in 1..Len(reads'[name].v) :
             reads'[name].v[i].count
               <= Cardinality({k \in 1..Len(jobs) :
                                 /\ jobs[k].isActive
                                 /\ jobs[k][readField(name)] = reads'[name].v[i].id})

\* C21: the jobs returned and counted by getAllJobs, advancedSearch, the
\* search statistics, the skill suggestions, the recommended jobs, the
\* similar jobs, the trending jobs and the personalized feed are active jobs;
\* an inactive job is in none of their results and in none of their counts.
C21_ActiveJobsOnly == []answersActive /\ [][readsActive]_vars

\* jobs are listed while an inactive job is in the collection
C21_Witness ==
  /\ answeredBy("getAllJobs")
  /\ response.results >= 1
  /\ inactiveIds # {}

----------------------------------------------------------------------------
(* getSimilarJobs next to jobs that are posted and deactivated *)

\* most jobs in the Job collection of getSimilarJobs
MaxSimilarJobs == 3

similarBody(location, jobType, skills) ==
  [title |-> wDev, description |-> wBuild, company |-> wAcme,
   location |-> location, jobType |-> Some(jobType), experienceLevel |-> None,
   salary |-> None, skillsRequired |-> skills, applicationDeadline |-> None]

\* a remote javascript job in Lahore, and jobs that differ from it in the
\* case of the location, in the job type, in the skills
SimilarBodies ==
  { similarBody(lLahore, tRemote, << sJavascript >>),
    similarBody(pLahore, tRemote, << sJavascript >>),
    similarBody(lLahore, tContract, << sJavascript >>),
    similarBody(lLahore, tRemote, << sDocker >>),
    similarBody(lLahore, tRemote, << sDocker, sJavascript >>) }

NextSimilar ==
  \/ \E body \in SimilarBodies : postJob(body, MaxSimilarJobs)
  \/ \E i \in 1..MaxSimilarJobs : deactivateJob(i)
  \/ \E jobId \in 1..(MaxSimilarJobs + 1), limit \in ReadLimits,
        nanOutcome \in NaNLimitOutcomes, tieOrder \in TieOrders :
          getSimilarJobs(jobId, limit, nanOutcome, tieOrder)
  \/ sendResponse

SpecSimilar == InitSearch /\ [][NextSimilar]_vars

----------------------------------------------------------------------------
(* Properties of getSimilarJobs *)

\* the stored job of an id
jobOf(id) == jobs[CHOOSE i \in 1..Len(jobs) : jobs[i].id = id]

sharesSkill(a, b) == Range(a.skillsRequired) \cap Range(b.skillsRequired) # {}

\* C22: getSimilarJobs returns only jobs that are active, differ from the
\* reference job, share at least one required skill with it, have its jobType
\* and exactly its location string; the reference job is never in its own
\* similar-jobs result.
C22_SimilarJobs ==
  answeredBy("getSimilarJobs") =>
    LET reference == jobOf(response.referenceJob.id)
    IN  /\ response.referenceJob.id \notin Range(response.jobs)
        /\ \A id \in Range(response.jobs) :
             /\ jobOf(id).isActive
             /\ id # reference.id
             /\ sharesSkill(jobOf(id), reference)
             /\ jobOf(id).jobType = reference.jobType
             /\ jobOf(id).location = reference.location

\* a similar job is returned for an active reference job while a job in the
\* same city written in another case is left out
C22_Witness ==
  /\ answeredBy("getSimilarJobs")
  /\ response.results >= 1
  /\ jobOf(response.referenceJob.id).isActive
  /\ \E i \in 1..Len(jobs) :
       /\ jobs[i].isActive
       /\ jobs[i].location # jobOf(response.referenceJob.id).location
       /\ jobs[i].id \notin Range(response.jobs)

----------------------------------------------------------------------------
(* resume.controller.js: the text helpers of analyzeResume.  A code unit
   outside ASCII is written as its name. *)

enDash == "ndash"
emDash == "mdash"
bullet == "bullet"

\* \s
isSpace(c) == c \in {" ", "\n", "\t", "\r"}

\* \w
isWordChar(c) ==
  isDigit(c) \/ IndexIn(c, LowerChars) # 0 \/ IndexIn(c, UpperChars) # 0 \/ c = "_"

\* str.trim()
trim(str) ==
  LET kept == {i \in 1..Len(str) : ~isSpace(str[i])}
  IN  IF kept = {} THEN <<>>
      ELSE SubSeq(str, CHOOSE i \in kept : \A j \in kept : i <= j,
                       CHOOSE i \in kept : \A j \in kept : i >= j)

\* text.split('\n')
splitLines(text) ==
  LET breaks == {i \in 1..Len(text) : text[i] = "\n"}
      nthBreak(k) == IF k = 0 THEN 0
                     ELSE IF k > Cardinality(breaks) THEN Len(text) + 1
                     ELSE CHOOSE i \in breaks : Cardinality({j \in breaks : j <= i}) = k
  IN  [k \in 1..(Cardinality(breaks) + 1) |->
         SubSeq(text, nthBreak(k - 1) + 1, nthBreak(k) - 1)]

\* the elements of a sequence, each computed once
asArray(seq) == SubSeq(seq, 1, Len(seq))

\* str.includes(sub)
includesText(str, sub) ==
  \E off \in 0..(Len(str) - Len(sub)) : \A k \in 1..Len(sub) : str[off + k] = sub[k]

\* whether str has the characters of prefix from index i on
startsWithAt(str, i, prefix) ==
  /\ i + Len(prefix) - 1 <= Len(str)
  /\ \A k \in 1..Len(prefix) : str[i + k - 1] = prefix[k]

startsWithIgnoreCaseAt(str, i, prefix) ==
  /\ i + Len(prefix) - 1 <= Len(str)
  /\ \A k \in 1..Len(prefix) : toLowerCaseChar(str[i + k - 1]) = toLowerCaseChar(prefix[k])

\* /a|b|c/i.test(text) for lower-case alternatives without operators
testAny(alternatives, text) ==
  LET lowerText == asArray(toLowerCase(text))
  IN  \E a \in 1..Len(alternatives) : includesText(lowerText, alternatives[a])

\* \b before the word character at i, \b after the word character at i
boundaryBefore(str, i) == i = 1 \/ ~isWordChar(str[i - 1])
boundaryAfter(str, i) == i = Len(str) \/ ~isWordChar(str[i + 1])

\* new RegExp(`\\b(a|b|c)\\b`, 'i').test(text), for lower-case alternatives
\* that start and end with a word character
testAnyWord(alternatives, text) ==
  LET lowerText == asArray(toLowerCase(text))
  IN  \E a \in 1..Len(alternatives) :
        \E off \in 0..(Len(text) - Len(alternatives[a])) :
          /\ startsWithAt(lowerText, off + 1, alternatives[a])
          /\ boundaryBefore(text, off + 1)
          /\ boundaryAfter(text, off + Len(alternatives[a]))

\* \d{n} at i
digitsAt(str, i, n) == i + n - 1 <= Len(str) /\ \A k \in i..(i + n - 1) : isDigit(str[k])

\* the first index from i on that is in none of the indices of run, the
\* index after the string when there is none
firstOutside(str, i, run) ==
  IF \E e \in i..Len(str) : e \notin run
    THEN CHOOSE e \in i..Len(str) : e \notin run /\ \A k \in i..(e - 1) : k \in run
    ELSE Max(i, Len(str) + 1)

\* the index after the run of white space that starts at i
skipWhite(str, i) == firstOutside(str, i, {k \in i..Len(str) : isSpace(str[k])})

\* the index after the run of characters other than white space from i on
skipNonWhite(str, i) == firstOutside(str, i, {k \in i..Len(str) : ~isSpace(str[k])})

\* the index after the run of digits from i on
skipDigits(str, i) == firstOutside(str, i, {k \in i..Len(str) : isDigit(str[k])})

\* /\b(19|20)\d{2}\b/.test(line)
hasYear(line) ==
  \E i \in 1..(Len(line) - 3) :
    /\ <<line[i], line[i + 1]>> \in {<<"1","9">>, <<"2","0">>}
    /\ isDigit(line[i + 2]) /\ isDigit(line[i + 3])
    /\ boundaryBefore(line, i)
    /\ boundaryAfter(line, i + 3)

\* The regular expressions of the replace calls.  matchEnd(kind, str, i) is
\* the index after the match that starts at i, 0 without a match at i.

\* /[\|•\*\-]\s*/
bulletEnd(str, i) ==
  IF str[i] \in {"|", bullet, "*", "-"} THEN skipWhite(str, i + 1) ELSE 0

\* /\b\d{4}\s*[-–—]\s*\d{4}\b/
yearRangeEnd(str, i) ==
  LET dash == skipWhite(str, i + 4)
      second == skipWhite(str, dash + 1)
  IN  IF /\ digitsAt(str, i, 4)
         /\ boundaryBefore(str, i)
         /\ dash <= Len(str)
         /\ str[dash] \in {"-", enDash, emDash}
         /\ digitsAt(str, second, 4)
         /\ boundaryAfter(str, second + 3)
        THEN second + 4 ELSE 0

\* /\S+@\S+/
emailEnd(str, i) ==
  LET end == skipNonWhite(str, i)
  IN  IF \E j \in (i + 1)..(end - 2) : str[j] = "@" THEN end ELSE 0

\* /http\S+|www\.\S+/
urlEnd(str, i) ==
  IF /\ startsWithAt(str, i, <<"h","t","t","p">>) \/ startsWithAt(str, i, <<"w","w","w",".">>)
     /\ skipNonWhite(str, i + 4) > i + 4
    THEN skipNonWhite(str, i + 4) ELSE 0

\* /http\S+|www\.\S+|\S+@\S+/
linkEnd(str, i) == IF urlEnd(str, i) # 0 THEN urlEnd(str, i) ELSE emailEnd(str, i)

\* /linkedin\.com\S*/i and /github\.com\S*/i
siteEnd(str, i, site) ==
  IF startsWithIgnoreCaseAt(str, i, site) THEN skipNonWhite(str, i + Len(site)) ELSE 0

\* /\(\+\d{2}\)\s*\d{3}[-\s]?\d{4,}/
phoneEnd(str, i) ==
  LET area == skipWhite(str, i + 5)
      withSeparator == area + 3 <= Len(str) /\ (str[area + 3] = "-" \/ isSpace(str[area + 3]))
      rest == IF withSeparator THEN area + 4 ELSE area + 3
  IN  IF /\ startsWithAt(str, i, <<"(", "+">>)
         /\ digitsAt(str, i + 2, 2)
         /\ startsWithAt(str, i + 4, <<")">>)
         /\ digitsAt(str, area, 3)
         /\ digitsAt(str, rest, 4)
        THEN skipDigits(str, rest) ELSE 0

\* /\s+/
spaceEnd(str, i) == IF isSpace(str[i]) THEN skipWhite(str, i) ELSE 0

\* /[.!?]+/
stopEnd(str, i) ==
  IF str[i] \in {".", "!", "?"}
    THEN firstOutside(str, i, {k \in i..Len(str) : str[k] \in {".", "!", "?"}})
    ELSE 0

linkedinCom == <<"l","i","n","k","e","d","i","n",".","c","o","m">>
githubCom == <<"g","i","t","h","u","b",".","c","o","m">>

matchEnd(kind, str, i) ==
  CASE kind = "bullet" -> bulletEnd(str, i)
    [] kind = "yearRange" -> yearRangeEnd(str, i)
    [] kind = "email" -> emailEnd(str, i)
    [] kind = "url" -> urlEnd(str, i)
    [] kind = "link" -> linkEnd(str, i)
    [] kind = "linkedin" -> siteEnd(str, i, linkedinCom)
    [] kind = "github" -> siteEnd(str, i, githubCom)
    [] kind = "phone" -> phoneEnd(str, i)
    [] kind = "space" -> spaceEnd(str, i)
    [] kind = "stop" -> stopEnd(str, i)

\* the least index of a set of indices, 0 for the empty set
firstOf(indices) ==
  IF indices = {} THEN 0 ELSE CHOOSE i \in indices : \A j \in indices : i <= j

\* the start of the first match at or after from, 0 when there is none
nextMatch(kind, str, from) ==
  firstOf({i \in from..Len(str) : matchEnd(kind, str, i) # 0})

\* str.replace(/.../g, replacement): the matches from left to right, start
\* the start of the first match at or after from
RECURSIVE replaceFrom(_, _, _, _, _)
replaceFrom(kind, str, from, replacement, start) ==
  IF start = 0 THEN SubSeq(str, from, Len(str))
  ELSE SubSeq(str, from, start - 1) \o replacement
       \o replaceFrom(kind, str, matchEnd(kind, str, start), replacement,
                      nextMatch(kind, str, matchEnd(kind, str, start)))

replaceAll(kind, str, replacement) ==
  replaceFrom(kind, str, 1, replacement, nextMatch(kind, str, 1))

\* the match that starts at start, None for start 0
matchAt(kind, str, start) ==
  IF start = 0 THEN None ELSE Some(SubSeq(str, start, matchEnd(kind, str, start) - 1))

\* str.match(/.../): the first match, None without one
firstMatch(kind, str) == matchAt(kind, str, nextMatch(kind, str, 1))

\* str.split(/.../): the pieces between the matches
RECURSIVE splitAllFrom(_, _, _, _)
splitAllFrom(kind, str, from, start) ==
  IF start = 0 THEN << SubSeq(str, from, Len(str)) >>
  ELSE << SubSeq(str, from, start - 1) >>
       \o splitAllFrom(kind, str, matchEnd(kind, str, start),
                       nextMatch(kind, str, matchEnd(kind, str, start)))

splitAll(kind, str) == splitAllFrom(kind, str, 1, nextMatch(kind, str, 1))

\* arr.map(s => s.trim())
trimAll(arr) == [i \in 1..Len(arr) |-> trim(arr[i])]

\* Array.from(new Set(arr)): the first occurrence of every element
unique(arr) ==
  LET firsts == {i \in 1..Len(arr) : \A j \in 1..(i - 1) : arr[j] # arr[i]}
      nth(r) == CHOOSE i \in firsts : Cardinality({j \in firsts : j <= i}) = r
  IN  [r \in 1..Cardinality(firsts) |-> arr[nth(r)]]

\* arr.join(sep)
RECURSIVE joinWith(_, _)
joinWith(arr, sep) ==
  IF Len(arr) = 0 THEN <<>>
  ELSE IF Len(arr) = 1 THEN arr[1]
  ELSE arr[1] \o sep \o joinWith(Tail(arr), sep)

----------------------------------------------------------------------------
(* utils/skillsDictionary.js and the extraction helpers of
   resume.controller.js *)

skillsDictionary ==
  [programmingLanguages |-> <<
    <<"j","a","v","a","s","c","r","i","p","t">>,
    <<"t","y","p","e","s","c","r","i","p","t">>, <<"p","y","t","h","o","n">>,
    <<"j","a","v","a">>, <<"c","+","+">>, <<"c","#">>, <<"c">>,
    <<"r","u","b","y">>, <<"p","h","p">>, <<"g","o">>, <<"r","u","s","t">>,
    <<"k","o","t","l","i","n">>, <<"s","w","i","f","t">>,
    <<"s","c","a","l","a">>, <<"r">>, <<"s","q","l">>, <<"h","t","m","l">>,
    <<"c","s","s">>, <<"b","a","s","h">>, <<"s","h","e","l","l">>,
    <<"p","o","w","e","r","s","h","e","l","l">>, <<"p","e","r","l">>,
    <<"l","u","a">>, <<"d","a","r","t">>,
    <<"o","b","j","e","c","t","i","v","e","-","c">>,
    <<"a","s","s","e","m","b","l","y">> >>,
   frameworks |-> <<
    <<"r","e","a","c","t">>, <<"a","n","g","u","l","a","r">>,
    <<"v","u","e",".","j","s">>, <<"n","o","d","e",".","j","s">>,
    <<"e","x","p","r","e","s","s">>, <<"d","j","a","n","g","o">>,
    <<"f","l","a","s","k">>, <<"s","p","r","i","n","g">>,
    <<"l","a","r","a","v","e","l">>,
    <<"r","u","b","y"," ","o","n"," ","r","a","i","l","s">>,
    <<"a","s","p",".","n","e","t">>, <<".","n","e","t"," ","c","o","r","e">>,
    <<"n","e","x","t",".","j","s">>, <<"n","u","x","t",".","j","s">>,
    <<"g","a","t","s","b","y">>, <<"s","v","e","l","t","e">>,
    <<"e","m","b","e","r",".","j","s">>,
    <<"b","a","c","k","b","o","n","e",".","j","s">>,
    <<"j","q","u","e","r","y">>, <<"b","o","o","t","s","t","r","a","p">>,
    <<"t","a","i","l","w","i","n","d"," ","c","s","s">>,
    <<"m","a","t","e","r","i","a","l"," ","u","i">>, <<"r","e","d","u","x">>,
    <<"v","u","e","x">>, <<"m","o","b","x">>,
    <<"g","r","a","p","h","q","l">>, <<"a","p","o","l","l","o">>,
    <<"n","e","s","t","j","s">>, <<"f","a","s","t","a","p","i">>,
    <<"h","a","p","i">>, <<"k","o","a">>, <<"m","e","t","e","o","r">>,
    <<"s","a","i","l","s",".","j","s">>, <<"a","d","o","n","i","s","j","s">>,
    <<"s","t","r","a","p","i">>, <<"w","o","r","d","p","r","e","s","s">> >>,
   databases |-> <<
    <<"m","o","n","g","o","d","b">>, <<"m","y","s","q","l">>,
    <<"p","o","s","t","g","r","e","s","q","l">>, <<"o","r","a","c","l","e">>,
    <<"s","q","l"," ","s","e","r","v","e","r">>, <<"s","q","l","i","t","e">>,
    <<"r","e","d","i","s">>, <<"c","a","s","s","a","n","d","r","a">>,
    <<"c","o","u","c","h","b","a","s","e">>,
    <<"d","y","n","a","m","o","d","b">>, <<"f","i","r","e","b","a","s","e">>,
    <<"e","l","a","s","t","i","c","s","e","a","r","c","h">>,
    <<"n","e","o","4","j">>, <<"m","a","r","i","a","d","b">>,
    <<"d","b","2">>, <<"i","n","f","l","u","x","d","b">>,
    <<"m","o","n","g","o","d","b"," ","a","t","l","a","s">>,
    <<"a","m","a","z","o","n"," ","r","d","s">>,
    <<"g","o","o","g","l","e"," ","c","l","o","u","d"," ","s","q","l">> >>,
   tools |-> <<
    <<"g","i","t">>, <<"g","i","t","h","u","b">>,
    <<"g","i","t","l","a","b">>, <<"b","i","t","b","u","c","k","e","t">>,
    <<"d","o","c","k","e","r">>, <<"k","u","b","e","r","n","e","t","e","s">>,
    <<"j","e","n","k","i","n","s">>, <<"c","i","r","c","l","e","c","i">>,
    <<"t","r","a","v","i","s","c","i">>,
    <<"g","i","t","h","u","b"," ","a","c","t","i","o","n","s">>,
    <<"a","w","s">>, <<"a","z","u","r","e">>,
    <<"g","o","o","g","l","e"," ","c","l","o","u","d">>,
    <<"h","e","r","o","k","u">>,
    <<"d","i","g","i","t","a","l","o","c","e","a","n">>,
    <<"n","g","i","n","x">>, <<"a","p","a","c","h","e">>,
    <<"l","i","n","u","x">>, <<"u","n","i","x">>,
    <<"w","i","n","d","o","w","s">>, <<"m","a","c","o","s">>,
    <<"v","s"," ","c","o","d","e">>,
    <<"v","i","s","u","a","l"," ","s","t","u","d","i","o">>,
    <<"i","n","t","e","l","l","i","j">>, <<"e","c","l","i","p","s","e">>,
    <<"s","u","b","l","i","m","e"," ","t","e","x","t">>, <<"a","t","o","m">>,
    <<"w","e","b","s","t","o","r","m">>, <<"p","y","c","h","a","r","m">>,
    <<"p","o","s","t","m","a","n">>, <<"s","w","a","g","g","e","r">>,
    <<"f","i","g","m","a">>, <<"s","k","e","t","c","h">>,
    <<"a","d","o","b","e"," ","x","d">>, <<"j","i","r","a">>,
    <<"t","r","e","l","l","o">>, <<"a","s","a","n","a">>,
    <<"s","l","a","c","k">>, <<"z","o","o","m">>,
    <<"m","i","c","r","o","s","o","f","t"," ","t","e","a","m","s">> >>]

\* the skills of a list that lowerText includes
foundIn(lowerText, list) ==
  LET has(skill) == includesText(lowerText, toLowerCase(skill))
  IN  SelectSeq(list, has)

\* skills.add(skill) for every list, then Array.from(skills)
skillsIn(lowerText, dictionary) ==
  unique(foundIn(lowerText, dictionary.programmingLanguages)
         \o foundIn(lowerText, dictionary.frameworks)
         \o foundIn(lowerText, dictionary.databases)
         \o foundIn(lowerText, dictionary.tools))

\* extractSkills(text, skillsDictionary)
extractSkills(text, dictionary) == skillsIn(asArray(toLowerCase(text)), dictionary)

\* the alternatives of degreePatterns, of the hasUniversity pattern
degreePatterns == <<
    <<"b","a","c","h","e","l","o","r">>, <<"b","s">>, <<"b",".","s",".">>,
    <<"b","c","s">>, <<"b",".","c",".","s",".">>,
    <<"u","n","d","e","r","g","r","a","d","u","a","t","e">>,
    <<"m","a","s","t","e","r">>, <<"m","s">>, <<"m",".","s",".">>,
    <<"m","c","s">>, <<"m",".","c",".","s",".">>,
    <<"g","r","a","d","u","a","t","e">>, <<"p","h","d">>,
    <<"p","h",".","d",".">>, <<"d","o","c","t","o","r","a","t","e">>,
    <<"a","s","s","o","c","i","a","t","e">>, <<"d","i","p","l","o","m","a">>,
    <<"c","e","r","t","i","f","i","c","a","t","i","o","n">>,
    <<"f","a","s","t","-","n","u","c","e","s">>, <<"n","u","s","t">>,
    <<"l","u","m","s">>, <<"c","o","m","s","a","t","s">>,
    <<"g","i","k","i">>, <<"u","e","t">> >>

universityPattern == <<
    <<"u","n","i","v","e","r","s","i","t","y">>,
    <<"c","o","l","l","e","g","e">>, <<"i","n","s","t","i","t","u","t","e">>,
    <<"s","c","h","o","o","l">>, <<"f","a","s","t">>, <<"n","u","s","t">>,
    <<"l","u","m","s">>, <<"c","o","m","s","a","t","s">>,
    <<"g","i","k","i">>, <<"u","e","t">> >>

\* text.split('\n').map(line => line.trim()).filter(line => line.length > lo
\* && line.length < hi)
linesOf(text, lo, hi) ==
  LET keep(line) == Len(line) > lo /\ Len(line) < hi
  IN  SelectSeq(trimAll(splitLines(text)), keep)

\* hasDegree && (hasYear || hasUniversity)
isEducationLine(line) ==
  /\ testAny(degreePatterns, line)
  /\ hasYear(line) \/ testAny(universityPattern, toLowerCase(line))

\* cleaned + ' (' + yearMatch[0] + ')' when the line has a year range
withYearRange(cleaned, yearMatch) ==
  IF yearMatch.some THEN cleaned \o <<" ", "(">> \o yearMatch.v \o <<")">> ELSE cleaned

\* the line cleaned, with its first year range restored at the end
cleanedEducation(line) ==
  withYearRange(trim(replaceAll("space",
                  replaceAll("link",
                    replaceAll("yearRange",
                      replaceAll("bullet", line, <<>>), <<>>), <<>>), <<" ">>)),
                firstMatch("yearRange", line))

cleanedEducationAll(lines) == [i \in 1..Len(lines) |-> cleanedEducation(lines[i])]

\* the elements longer than min
longerThan(arr, min) == LET long(c) == Len(c) > min IN SelectSeq(arr, long)

\* faulty variant: every cleaned line kept, whatever its length
extractEducation_anyLength(text) ==
  unique(cleanedEducationAll(SelectSeq(linesOf(text, 5, 100), isEducationLine)))

\* extractEducation(text)
extractEducation(text) ==
  unique(longerThan(cleanedEducationAll(SelectSeq(linesOf(text, 5, 100), isEducationLine)),
                    10))

\* jobKeywords; 'full[-\s]?stack' is the pattern full[-s]?stack, written as
\* the three strings it matches
jobKeywords == <<
    <<"d","e","v","e","l","o","p","e","r">>,
    <<"e","n","g","i","n","e","e","r">>,
    <<"p","r","o","g","r","a","m","m","e","r">>,
    <<"s","o","f","t","w","a","r","e">>, <<"f","r","o","n","t","e","n","d">>,
    <<"b","a","c","k","e","n","d">>, <<"f","u","l","l","s","t","a","c","k">>,
    <<"f","u","l","l","-","s","t","a","c","k">>,
    <<"f","u","l","l","s","s","t","a","c","k">>, <<"i","n","t","e","r","n">>,
    <<"t","r","a","i","n","e","e">>,
    <<"r","e","s","e","a","r","c","h","e","r">>,
    <<"a","n","a","l","y","s","t">>, <<"q","a">>,
    <<"t","e","s","t","e","r">>, <<"s","d","e">>, <<"s","s","e">>,
    <<"l","e","a","d">>, <<"m","a","n","a","g","e","r">>,
    <<"a","r","c","h","i","t","e","c","t">> >>

companyIndicators == <<
    <<"i","n","c">>, <<"l","l","c">>, <<"l","t","d">>, <<"c","o","r","p">>,
    <<"t","e","c","h","n","o","l","o","g","i","e","s">>,
    <<"s","o","l","u","t","i","o","n","s">>, <<"s","y","s","t","e","m","s">>,
    <<"g","o","o","g","l","e">>, <<"m","i","c","r","o","s","o","f","t">>,
    <<"a","m","a","z","o","n">>, <<"f","a","c","e","b","o","o","k">>,
    <<"m","e","t","a">>, <<"a","p","p","l","e">>,
    <<"n","e","t","f","l","i","x">>, <<"p","a","k","i","s","t","a","n">>,
    <<"k","a","r","a","c","h","i">>, <<"l","a","h","o","r","e">>,
    <<"i","s","l","a","m","a","b","a","d">>, <<"r","e","m","o","t","e">> >>

monthNames == <<
    <<"j","a","n">>, <<"f","e","b">>, <<"m","a","r">>, <<"a","p","r">>,
    <<"m","a","y">>, <<"j","u","n">>, <<"j","u","l">>, <<"a","u","g">>,
    <<"s","e","p">>, <<"o","c","t">>, <<"n","o","v">>, <<"d","e","c">> >>

\* /\b(20\d{2}|jan|...|dec)\b/i.test(line)
hasDate(line) ==
  \/ \E i \in 1..(Len(line) - 3) :
       /\ startsWithAt(line, i, <<"2","0">>)
       /\ isDigit(line[i + 2]) /\ isDigit(line[i + 3])
       /\ boundaryBefore(line, i)
       /\ boundaryAfter(line, i + 3)
  \/ testAnyWord(monthNames, line)

isExperienceLine(line) ==
  LET lowerLine == asArray(toLowerCase(line))
  IN  /\ testAnyWord(jobKeywords, line)
      /\ \/ hasDate(line)
         \/ \E c \in 1..Len(companyIndicators) : includesText(lowerLine, companyIndicators[c])

cleanedExperience(line) ==
  trim(replaceAll("space",
         replaceAll("link", replaceAll("bullet", line, <<>>), <<>>), <<" ">>))

cleanedExperienceAll(lines) == [i \in 1..Len(lines) |-> cleanedExperience(lines[i])]

\* extractExperience(text)
extractExperience(text) ==
  unique(longerThan(cleanedExperienceAll(SelectSeq(linesOf(text, 15, 120),
                                                   isExperienceLine)),
                    20))

\* the text of generateSummary without contact details and bullets
cleanedText(text) ==
  trim(replaceAll("space",
    replaceAll("bullet",
      replaceAll("phone",
        replaceAll("github",
          replaceAll("linkedin",
            replaceAll("url", replaceAll("email", text, <<>>), <<>>),
            <<>>), <<>>), <<>>), <<" ">>), <<" ">>))

excludedWords == <<
    <<"p","h","o","n","e">>, <<"e","m","a","i","l">>,
    <<"l","i","n","k","e","d","i","n">>, <<"g","i","t","h","u","b">> >>

\* /\d{4}/.test(s)
hasFourDigits(s) == \E i \in 1..(Len(s) - 3) : digitsAt(s, i, 4)

isSummarySentence(s) ==
  LET lower == asArray(toLowerCase(s))
  IN  /\ Len(s) > 30
      /\ \A w \in 1..Len(excludedWords) : ~includesText(lower, excludedWords[w])
      /\ ~hasFourDigits(s)

\* cleanedText.split(/[.!?]+/).map(s => s.trim()).filter(...)
sentencesOf(text) ==
  SelectSeq(trimAll(splitAll("stop", cleanedText(text))), isSummarySentence)

priorityKeywords == <<
    <<"p","a","s","s","i","o","n","a","t","e">>,
    <<"e","x","p","e","r","i","e","n","c","e","d">>,
    <<"s","k","i","l","l","e","d">>,
    <<"s","p","e","c","i","a","l","i","z","e","d">>,
    <<"e","x","p","e","r","t">>,
    <<"p","r","o","f","e","s","s","i","o","n","a","l">>,
    <<"d","e","v","e","l","o","p","e","r">>,
    <<"e","n","g","i","n","e","e","r">> >>

\* priorityKeywords.filter(kw => s.toLowerCase().includes(kw)).length
priorityScore(s) ==
  LET lower == asArray(toLowerCase(s))
  IN  Cardinality({k \in 1..Len(priorityKeywords) : includesText(lower, priorityKeywords[k])})

fallbackSummary == <<"P","r","o","f","e","s","s","i","o","n","a","l"," ","p","r","o","f","i","l","e"," ","e","x","t","r","a","c","t","e","d"," ","f","r","o","m"," ","r","e","s","u","m","e",".">>

\* faulty variant: the sentences in the order of the text
prioritized_unsorted(sentences) == sentences

\* sentences.sort((a, b) => scoreB - scoreA)
prioritized(sentences) ==
  sortDescending(sentences,
                 asArray([i \in 1..Len(sentences) |-> priorityScore(sentences[i])]))

\* summarySentences.join('. ') + (summarySentences.length > 0 ? '.' : '...')
joined(summarySentences) ==
  joinWith(summarySentences, <<".", " ">>)
  \o (IF Len(summarySentences) > 0 THEN <<".">> ELSE fallbackSummary)

\* arr.slice(0, 3)
firstThree(arr) == SubSeq(arr, 1, Min(Len(arr), 3))

\* generateSummary(text)
generateSummary(text) == joined(firstThree(unique(prioritized(sentencesOf(text)))))

----------------------------------------------------------------------------
(* resume.controller.js: uploadResume and analyzeResume *)

\* req.file: the text pdf-parse reads from the uploaded file, when it can
readableFile(text) == Some([readable |-> TRUE, text |-> text])
corruptFile == Some([readable |-> FALSE, text |-> <<>>])

\* Resume.findOneAndUpdate({userId}, {..., extractedText}, {upsert: true}):
\* the file fields and the text are set, a missing document is created with
\* the defaults of the schema, every other field stays as it is stored
uploadedDocument(stored, text) ==
  IF stored.some THEN [stored.v EXCEPT !.extractedText = text]
  ELSE [extractedText |-> text, skills |-> <<>>, education |-> <<>>,
        experience |-> <<>>, summary |-> None]

\* POST /api/resume/upload
uploadResume(file) ==
  /\ response = NoResponse
  /\ IF ~file.some
       THEN response' = [status |-> 400, handler |-> "uploadResume"] /\ UNCHANGED resume
     ELSE IF ~file.v.readable
       THEN response' = [status |-> 500, handler |-> "uploadResume"] /\ UNCHANGED resume
     ELSE /\ resume' = Some(uploadedDocument(resume, file.v.text))
          /\ response' = [status |-> 201, handler |-> "uploadResume"]
  /\ UNCHANGED <<jobs, reads>>
  /\ UNCHANGED <<scorerVars, pipeline, accountVars>>

\* the four values analyzeResume extracts from a text
extractionOf(text) ==
  [skills |-> extractSkills(text, skillsDictionary),
   education |-> extractEducation(text),
   experience |-> extractExperience(text),
   summary |-> Some(generateSummary(text))]

\* the analysis stored in a Resume document
analysisOf(document) ==
  [skills |-> document.skills, education |-> document.education,
   experience |-> document.experience, summary |-> document.summary]

\* faulty variant: the extracted lists appended to the loaded ones
assigned_merged(loaded, extracted) ==
  [extractedText |-> loaded.extractedText,
   skills |-> unique(loaded.skills \o extracted.skills),
   education |-> unique(loaded.education \o extracted.education),
   experience |-> unique(loaded.experience \o extracted.experience),
   summary |-> extracted.summary]

\* resume.skills = extractedSkills; resume.education = education; ...
assigned(loaded, extracted) ==
  [extractedText |-> loaded.extractedText,
   skills |-> extracted.skills,
   education |-> extracted.education,
   experience |-> extracted.experience,
   summary |-> extracted.summary]

\* resume.save(): the paths whose value differs from the loaded one are
\* written to the stored document
saved(stored, loaded, changed) ==
  [path \in DOMAIN stored |->
     IF changed[path] # loaded[path] THEN changed[path] ELSE stored[path]]

\* POST /api/resume/analyze up to the result of Resume.findOne
findResume ==
  /\ response = NoResponse
  /\ IF ~resume.some
       THEN response' = [status |-> 404, handler |-> "analyzeResume"] /\ UNCHANGED requests
       ELSE /\ requests' = Append(requests, [handler |-> "analyzeResume", resume |-> resume.v])
            /\ UNCHANGED response
  /\ UNCHANGED <<jobs, resume, reads, applications, users>>
  /\ UNCHANGED <<scorerVars, pipeline>>

\* the requests without the one at position r
without(r) == [k \in 1..(Len(requests) - 1) |-> IF k < r THEN requests[k] ELSE requests[k + 1]]

\* the 200 response of analyzeResume
analysisResponse(extracted, loaded, stored) ==
  [status |-> 200,
   analysis |-> extracted,
   handler |-> "analyzeResume",
   \* kept for the properties: the document as loaded and as stored
   \* before the save
   loaded |-> loaded,
   before |-> stored]

\* the extraction, resume.save() and the response of analyzeResume
analysed(loaded, extracted) ==
  /\ resume' = Some(saved(resume.v, loaded, assigned(loaded, extracted)))
  /\ response' = analysisResponse(extracted, loaded, resume.v)

\* POST /api/resume/analyze from the extraction to the response
saveAnalysis(r) ==
  /\ response = NoResponse
  /\ r \in 1..Len(requests)
  /\ requests[r].handler = "analyzeResume"
  /\ analysed(requests[r].resume, extractionOf(requests[r].resume.extractedText))
  /\ requests' = without(r)
  /\ UNCHANGED <<jobs, reads, applications, users>>
  /\ UNCHANGED <<scorerVars, pipeline>>

----------------------------------------------------------------------------
(* One job seeker uploads resumes and has them analysed *)

textPython == <<"B","S"," ","C","o","m","p","u","t","e","r"," ","S","c","i","e","n","c","e"," ","F","A","S","T"," ","2","0","1","9",".","\n","P","y","t","h","o","n"," ","d","e","v","e","l","o","p","e","r"," ","a","t"," ","G","o","o","g","l","e"," ","L","a","h","o","r","e",".","\n","E","x","p","e","r","i","e","n","c","e","d"," ","e","n","g","i","n","e","e","r"," ","s","k","i","l","l","e","d"," ","i","n"," ","p","y","t","h","o","n"," ","a","n","d"," ","s","q","l",".">>
textReact == <<"M","S"," ","S","o","f","t","w","a","r","e"," ","E","n","g","i","n","e","e","r","i","n","g"," ","L","U","M","S"," ","2","0","2","1",".","\n","F","r","o","n","t","e","n","d"," ","d","e","v","e","l","o","p","e","r"," ","a","t"," ","M","e","t","a",","," ","r","e","m","o","t","e",".","\n","P","a","s","s","i","o","n","a","t","e"," ","d","e","v","e","l","o","p","e","r"," ","s","p","e","c","i","a","l","i","z","e","d"," ","i","n"," ","r","e","a","c","t"," ","a","n","d"," ","d","o","c","k","e","r",".">>
textPlain == <<"L","o","o","k","i","n","g"," ","f","o","r"," ","w","o","r","k">>

ResumeTexts == {textPython, textReact, textPlain}

ResumeFiles == {None, corruptFile} \cup {readableFile(text) : text \in ResumeTexts}

NextResume ==
  \/ \E file \in ResumeFiles : uploadResume(file)
  \/ requests = <<>> /\ findResume
  \/ \E r \in DOMAIN requests : saveAnalysis(r)
  \/ sendResponse

SpecResume == InitSearch /\ [][NextResume]_vars

----------------------------------------------------------------------------
(* Properties of the resume analysis *)

analysisAnswered == answeredBy("analyzeResume")

\* the analysis ran on the document as it is stored: no upload and no other
\* analysis came between its findOne and its save
undisturbed == response.loaded = response.before

\* C23: an analysis of a resume whose text did not change stores and returns
\* the extraction of that text, with nothing of the fields stored before, and
\* a second analysis of the same text leaves the record as the first left it.
C23_AnalysisOverwrites ==
  (analysisAnswered /\ undisturbed) =>
    /\ analysisOf(resume.v) = extractionOf(resume.v.extractedText)
    /\ response.analysis = analysisOf(resume.v)
    /\ analysisOf(response.before) = extractionOf(response.before.extractedText)
         => resume.v = response.before

\* a resume analysed before is analysed again after a new text was uploaded
C23_Witness ==
  /\ analysisAnswered /\ undisturbed
  /\ response.before.skills # <<>>
  /\ response.before.skills # resume.v.skills
  /\ resume.v.skills # <<>>

\* a resume is analysed a second time on the same text
C23_WitnessAgain ==
  /\ analysisAnswered /\ undisturbed
  /\ resume.v.skills # <<>>
  /\ resume.v = response.before

\* C30 (as claimed): the skills, education, experience and summary stored on
\* the resume record are unset or the extraction of the text the record
\* holds, after any sequence of uploadResume and analyzeResume requests.
C30_AnalysisOfStoredText ==
  (resume.some /\ requests = <<>>) =>
    \/ analysisOf(resume.v) = analysisOf(uploadedDocument(None, resume.v.extractedText))
    \/ analysisOf(resume.v) = extractionOf(resume.v.extractedText)

----------------------------------------------------------------------------
(* The education lines of analysed resumes *)

MaxEducationLines == 2

lineDegreeYear == <<"B","S"," ","C","o","m","p","u","t","e","r"," ","S","c","i","e","n","c","e"," ","F","A","S","T"," ","2","0","1","9">>
lineShort == <<"B","S"," ","2","0","2","0">>
lineBulletRange == <<" ", "*", " ">> \o <<"M","S"," ","L","U","M","S"," ","2","0","1","5">> \o <<enDash>> \o <<"2","0","1","7">>
lineNoDegree == <<"P","y","t","h","o","n"," ","2","0","2","0">>
lineTooShort == <<"M","S","U","E","T">>

EducationLines == {lineDegreeYear, lineShort, lineBulletRange, lineNoDegree, lineTooShort}

\* the texts of one to MaxEducationLines lines
EducationTexts ==
  UNION {{joinWith(lines, <<"\n">>) : lines \in [1..n -> EducationLines]} :
           n \in 1..MaxEducationLines}

\* a resume was uploaded, and not analysed yet
InitEducation ==
  /\ resumeSkills = None
  /\ jobSkills = None
  /\ matchResult = NoResult
  /\ pc = "idle"
  /\ jobs = <<>>
  /\ resume \in {Some(uploadedDocument(None, text)) : text \in EducationTexts}
  /\ response = NoResponse
  /\ reads = NoReads
  /\ pipeline = None
  /\ applications = <<>>
  /\ users = <<>>
  /\ requests = <<>>

NextEducation ==
  \/ requests = <<>> /\ findResume
  \/ \E r \in DOMAIN requests : saveAnalysis(r)
  \/ sendResponse

SpecEducation == InitEducation /\ [][NextEducation]_vars

----------------------------------------------------------------------------
(* Properties of the education lines *)

\* the line qualifies: its trimmed length is in (5,100), it matches a degree
\* pattern, and it has a year or an institution keyword
qualifiesForEducation(line) ==
  /\ Len(trim(line)) > 5
  /\ Len(trim(line)) < 100
  /\ isEducationLine(trim(line))

\* the cleaned form of a line is longer than 10 characters
cleansLong(line) == Len(cleanedEducation(trim(line))) > 10

\* the position of the first qualifying line of lines that cleans to entry
firstLineOf(entry, lines) ==
  firstOf({i \in 1..Len(lines) :
             qualifiesForEducation(lines[i]) /\ cleanedEducation(trim(lines[i])) = entry})

noDuplicates(output) ==
  \A j, k \in 1..Len(output) : j # k => output[j] # output[k]

inOrderOfFirstOccurrence(output, lines) ==
  \A j, k \in 1..Len(output) :
    j < k => firstLineOf(output[j], lines) < firstLineOf(output[k], lines)

\* every qualifying line is in the output in its cleaned form
everyQualifyingLine(output, lines) ==
  \A i \in 1..Len(lines) :
    qualifiesForEducation(lines[i])
      => \E k \in 1..Len(output) : output[k] = cleanedEducation(trim(lines[i]))

\* every qualifying line that cleans to more than 10 characters is in the
\* output in its cleaned form
everyLongQualifyingLine(output, lines) ==
  \A i \in 1..Len(lines) :
    (qualifiesForEducation(lines[i]) /\ cleansLong(lines[i]))
      => \E k \in 1..Len(output) : output[k] = cleanedEducation(trim(lines[i]))

\* every entry of the output is the cleaned form of a qualifying line
onlyQualifyingLines(output, lines) ==
  \A k \in 1..Len(output) : firstLineOf(output[k], lines) # 0

\* every entry of the output is longer than 10 characters
onlyLongEntries(output) == \A k \in 1..Len(output) : Len(output[k]) > 10

\* C24 (as claimed): every qualifying line of the analysed text is in the
\* education output in its cleaned form, no other line is, and the output
\* has no duplicates and is in the order of first occurrence.
C24_EveryQualifyingLine ==
  analysisAnswered =>
    /\ everyQualifyingLine(response.analysis.education,
                           splitLines(response.loaded.extractedText))
    /\ onlyQualifyingLines(response.analysis.education,
                           splitLines(response.loaded.extractedText))
    /\ noDuplicates(response.analysis.education)
    /\ inOrderOfFirstOccurrence(response.analysis.education,
                                splitLines(response.loaded.extractedText))

\* C24 (amended): every qualifying line of the analysed text whose cleaned
\* form is longer than 10 characters is in the education output in its
\* cleaned form, every entry of the output is such a line, and the output has
\* no duplicates and is in the order of first occurrence.
C24_Education ==
  analysisAnswered =>
    /\ everyLongQualifyingLine(response.analysis.education,
                               splitLines(response.loaded.extractedText))
    /\ onlyQualifyingLines(response.analysis.education,
                           splitLines(response.loaded.extractedText))
    /\ onlyLongEntries(response.analysis.education)
    /\ noDuplicates(response.analysis.education)
    /\ inOrderOfFirstOccurrence(response.analysis.education,
                                splitLines(response.loaded.extractedText))

\* a text with a qualifying line that is kept and one that cleans to 10
\* characters or fewer was analysed
someShortQualifyingLine(lines) ==
  \E i \in 1..Len(lines) : qualifiesForEducation(lines[i]) /\ ~cleansLong(lines[i])

C24_Witness ==
  /\ analysisAnswered
  /\ response.analysis.education # <<>>
  /\ someShortQualifyingLine(splitLines(response.loaded.extractedText))

----------------------------------------------------------------------------
(* The summaries of analysed resumes *)

MaxParagraphs == 3

sentenceExperienced == <<"E","x","p","e","r","i","e","n","c","e","d"," ","i","n"," ","d","e","s","i","g","n","i","n","g"," ","d","a","t","a"," ","p","i","p","e","l","i","n","e","s">>
sentenceProfessional == <<"P","r","o","f","e","s","s","i","o","n","a","l"," ","w","i","t","h"," ","s","t","r","o","n","g"," ","a","n","a","l","y","t","i","c","a","l"," ","m","i","n","d">>
sentencePassionate == <<"P","a","s","s","i","o","n","a","t","e"," ","d","e","v","e","l","o","p","e","r"," ","o","f"," ","m","o","b","i","l","e"," ","a","p","p","l","i","c","a","t","i","o","n","s">>
sentencePlain == <<"I"," ","e","n","j","o","y"," ","b","u","i","l","d","i","n","g"," ","r","e","l","i","a","b","l","e"," ","w","e","b"," ","s","e","r","v","i","c","e","s">>

\* paragraphs of one sentence and of two
Paragraphs ==
  {sentenceExperienced \o <<".">>,
   sentencePassionate \o <<".">>,
   sentenceProfessional \o <<".", " ">> \o sentencePlain \o <<".">>}

\* the texts of one to MaxParagraphs paragraphs, and one without a sentence
\* of more than 30 characters
SummaryTexts ==
  {textPlain}
  \cup UNION {{joinWith(paragraphs, <<"\n">>) : paragraphs \in [1..n -> Paragraphs]} :
                n \in 1..MaxParagraphs}

\* a resume was uploaded, and not analysed yet
InitSummary ==
  /\ resumeSkills = None
  /\ jobSkills = None
  /\ matchResult = NoResult
  /\ pc = "idle"
  /\ jobs = <<>>
  /\ resume \in {Some(uploadedDocument(None, text)) : text \in SummaryTexts}
  /\ response = NoResponse
  /\ reads = NoReads
  /\ pipeline = None
  /\ applications = <<>>
  /\ users = <<>>
  /\ requests = <<>>

NextSummary ==
  \/ requests = <<>> /\ findResume
  \/ \E r \in DOMAIN requests : saveAnalysis(r)
  \/ sendResponse

SpecSummary == InitSummary /\ [][NextSummary]_vars

----------------------------------------------------------------------------
(* Properties of the summaries *)

\* the number of strength keywords of each sentence
strengthCounts(sentences) ==
  asArray([i \in 1..Len(sentences) |-> priorityScore(sentences[i])])

\* the place of sentence i in the ranking: after the sentences with a
\* higher count and after the earlier sentences with the same count
placeOf(i, counts) ==
  1 + Cardinality({j \in 1..Len(counts) :
                     \/ counts[j] > counts[i]
                     \/ counts[j] = counts[i] /\ j < i})

\* the sentences, every one at its place
ranking(sentences, counts) ==
  [p \in 1..Len(sentences) |->
     sentences[CHOOSE i \in 1..Len(sentences) : placeOf(i, counts) = p]]

\* the first place of a sentence in ranked, 0 when it is not there
firstPlace(sentence, ranked) == firstOf({i \in 1..Len(ranked) : ranked[i] = sentence})

\* top is the first three distinct sentences of ranked
isTopThree(top, ranked) ==
  /\ Len(top) <= 3
  /\ \A k \in 1..Len(top) : firstPlace(top[k], ranked) # 0
  /\ \A j, k \in 1..Len(top) :
       j < k => firstPlace(top[j], ranked) < firstPlace(top[k], ranked)
  /\ \A i \in 1..Len(ranked) :
       (\A k \in 1..Len(top) : ranked[i] # top[k])
         => Len(top) = 3 /\ i > firstPlace(top[3], ranked)

\* the sequences of at most three of the sentences
topCandidates(sentences) ==
  UNION {[1..n -> {sentences[i] : i \in 1..Len(sentences)}] : n \in 0..3}

\* the summary is the first three distinct sentences of the ranking of the
\* qualifying sentences, joined with '. ' and ended with a period, or the
\* fallback when no sentence qualifies
isSummaryOf(summary, sentences) ==
  IF sentences = <<>> THEN summary = fallbackSummary
  ELSE \E top \in topCandidates(sentences) :
         /\ summary = joinWith(top, <<".", " ">>) \o <<".">>
         /\ isTopThree(top, ranking(sentences, strengthCounts(sentences)))

\* C25: the summary of an analysed text is its first three distinct
\* qualifying sentences in descending order of their count of strength
\* keywords, equal counts in the order of the text, joined with '. ' and
\* ended with a period; without a qualifying sentence it is the fallback.
C25_Summary ==
  analysisAnswered =>
    isSummaryOf(response.analysis.summary.v, sentencesOf(response.loaded.extractedText))

\* the two sentences with one keyword each keep the order of the text
\* behind a later sentence with two keywords, and a fourth sentence is cut
C25_Witness ==
  /\ analysisAnswered
  /\ sentencesOf(response.loaded.extractedText)
       = <<sentenceProfessional, sentencePlain, sentenceExperienced, sentencePassionate>>
  /\ response.analysis.summary.v
       = joinWith(<<sentencePassionate, sentenceProfessional, sentenceExperienced>>,
                  <<".", " ">>) \o <<".">>

\* a text without a qualifying sentence was analysed
C25_WitnessFallback ==
  /\ analysisAnswered
  /\ sentencesOf(response.loaded.extractedText) = <<>>
  /\ response.analysis.summary.v = fallbackSummary

----------------------------------------------------------------------------
(* application.controller.js: applyForJob and deleteApplication *)

\* the messages of the 400 responses of applyForJob
jobIdRequired == "Job ID is required"
notAccepting == "This job is no longer accepting applications"
alreadyApplied == "You have already applied for this job"
uploadFirst == "Please upload your resume before applying"

\* Application.findOne({jobId, jobSeekerId})
findApplication(jobId, jobSeekerId) ==
  IF \E i \in 1..Len(applications) :
       applications[i].jobId = jobId /\ applications[i].jobSeekerId = jobSeekerId
    THEN Some(applications[CHOOSE i \in 1..Len(applications) :
                applications[i].jobId = jobId /\ applications[i].jobSeekerId = jobSeekerId])
    ELSE None

\* Application.findById(id)
findApplicationById(id) ==
  IF \E i \in 1..Len(applications) : applications[i].id = id
    THEN Some(applications[CHOOSE i \in 1..Len(applications) : applications[i].id = id])
    ELSE None

\* the ids of the stored applications and of those a request in flight holds
idsInUse ==
  {applications[i].id : i \in 1..Len(applications)}
  \cup {requests[r].application.id :
          r \in {q \in 1..Len(requests) : requests[q].handler = "deleteApplication"}}

\* the _id of a new document: one that nothing refers to
newId == CHOOSE n \in 1..(Cardinality(idsInUse) + 1) : n \notin idsInUse

\* faulty variant: the collection has no unique index
violatesUniqueIndex_absent(jobId, jobSeekerId) == FALSE

\* applicationSchema.index({jobId: 1, jobSeekerId: 1}, {unique: true}): an
\* insert of a pair that is stored fails with the error code 11000
violatesUniqueIndex(jobId, jobSeekerId) == findApplication(jobId, jobSeekerId).some

\* the document Application.create stores
applicationDocument(id, job, jobSeekerId, score) ==
  [id |-> id, jobId |-> job.id, jobSeekerId |-> jobSeekerId,
   matchScore |-> score, status |-> "pending"]

\* the job collection after job.save() of a loaded job whose applicantsCount
\* was assigned: the value is set on the stored document
savedCount(job, count) ==
  [i \in 1..Len(jobs) |->
     IF jobs[i].id = job.id THEN [jobs[i] EXCEPT !.applicantsCount = count] ELSE jobs[i]]

\* the response of a request of applyForJob; found tells whether the pair
\* of the request was stored when the outcome was decided
applyResponse(status, message, request, found) ==
  [status |-> status, message |-> message, handler |-> "applyForJob",
   jobSeekerId |-> request.jobSeekerId, jobId |-> request.job.id,
   \* kept for the properties: where the request stood
   position |-> request.pc, found |-> found]

\* applyForJob up to the result of Job.findById; a job is loaded only while
\* its count is below max
applyForJob(jobSeekerId, jobId, inFlight, max) ==
  /\ response = NoResponse
  /\ Len(requests) < inFlight
  /\ IF ~jobId.some
       THEN /\ response' = [status |-> 400, message |-> jobIdRequired, handler |-> "applyForJob"]
            /\ UNCHANGED requests
     ELSE IF ~findById(jobId.v).some
       THEN /\ response' = [status |-> 404, handler |-> "applyForJob"]
            /\ UNCHANGED requests
     ELSE IF ~findById(jobId.v).v.isActive
       THEN /\ response' = [status |-> 400, message |-> notAccepting, handler |-> "applyForJob"]
            /\ UNCHANGED requests
     ELSE /\ findById(jobId.v).v.applicantsCount < max
          /\ requests' = Append(requests, [handler |-> "applyForJob", pc |-> "findOne",
                                           jobSeekerId |-> jobSeekerId,
                                           job |-> findById(jobId.v).v])
          /\ UNCHANGED response
  /\ UNCHANGED <<jobs, resume, reads, applications, users>>
  /\ UNCHANGED <<scorerVars, pipeline>>

\* a request in flight of a handler at a position
at(r, handler, position) ==
  /\ r \in 1..Len(requests)
  /\ requests[r].handler = handler
  /\ requests[r].pc = position

\* the requests with the one at position r replaced
proceed(r, request) == [requests EXCEPT ![r] = request]

\* applyForJob from Application.findOne to the match score; found is the
\* result of Resume.findOne for the user, whose Resume collection the
\* requests of the resume routes write at any time
checkExisting(r, found) ==
  /\ response = NoResponse
  /\ at(r, "applyForJob", "findOne")
  /\ IF findApplication(requests[r].job.id, requests[r].jobSeekerId).some
       THEN /\ response' = applyResponse(400, alreadyApplied, requests[r], TRUE)
            /\ requests' = without(r)
     ELSE IF ~found.some
       THEN /\ response' = applyResponse(400, uploadFirst, requests[r], FALSE)
            /\ requests' = without(r)
     ELSE /\ requests' = proceed(r,
               [handler |-> "applyForJob", pc |-> "create",
                jobSeekerId |-> requests[r].jobSeekerId,
                job |-> requests[r].job,
                matchResult |-> calculateMatchScore(Some(found.v.skills),
                                                    Some(requests[r].job.skillsRequired))])
          /\ UNCHANGED response
  /\ UNCHANGED <<jobs, resume, reads, applications, users>>
  /\ UNCHANGED <<scorerVars, pipeline>>

\* applyForJob at Application.create
createApplication(r) ==
  /\ response = NoResponse
  /\ at(r, "applyForJob", "create")
  /\ IF violatesUniqueIndex(requests[r].job.id, requests[r].jobSeekerId)
       THEN /\ response' = applyResponse(400, alreadyApplied, requests[r], TRUE)
            /\ requests' = without(r)
            /\ UNCHANGED applications
       ELSE /\ applications' = Append(applications,
                 applicationDocument(newId, requests[r].job, requests[r].jobSeekerId,
                                     requests[r].matchResult.score))
            /\ requests' = proceed(r, [requests[r] EXCEPT !.pc = "save"])
            /\ UNCHANGED response
  /\ UNCHANGED <<jobs, resume, reads, users>>
  /\ UNCHANGED <<scorerVars, pipeline>>

\* applyForJob from job.applicantsCount += 1 to the response
saveApplicantsCount(r) ==
  /\ response = NoResponse
  /\ at(r, "applyForJob", "save")
  /\ jobs' = savedCount(requests[r].job, requests[r].job.applicantsCount + 1)
  /\ response' = applyResponse(201, "", requests[r], FALSE)
  /\ requests' = without(r)
  /\ UNCHANGED <<resume, reads, applications, users>>
  /\ UNCHANGED <<scorerVars, pipeline>>

\* deleteApplication up to the result of Application.findById
deleteApplication(jobSeekerId, id, inFlight) ==
  /\ response = NoResponse
  /\ Len(requests) < inFlight
  /\ IF ~findApplicationById(id).some
       THEN /\ response' = [status |-> 404, handler |-> "deleteApplication"]
            /\ UNCHANGED requests
     ELSE IF findApplicationById(id).v.jobSeekerId # jobSeekerId
       THEN /\ response' = [status |-> 403, handler |-> "deleteApplication"]
            /\ UNCHANGED requests
     ELSE /\ requests' = Append(requests, [handler |-> "deleteApplication", pc |-> "delete",
                                           application |-> findApplicationById(id).v])
          /\ UNCHANGED response
  /\ UNCHANGED <<jobs, resume, reads, applications, users>>
  /\ UNCHANGED <<scorerVars, pipeline>>

\* deleteApplication at Application.findByIdAndDelete
removeApplication(r) ==
  /\ response = NoResponse
  /\ at(r, "deleteApplication", "delete")
  /\ applications' = LET others(a) == a.id # requests[r].application.id
                     IN  SelectSeq(applications, others)
  /\ requests' = proceed(r, [requests[r] EXCEPT !.pc = "findJob"])
  /\ UNCHANGED <<jobs, resume, response, reads, users>>
  /\ UNCHANGED <<scorerVars, pipeline>>

\* deleteApplication at Job.findById
findJobOfApplication(r) ==
  /\ response = NoResponse
  /\ at(r, "deleteApplication", "findJob")
  /\ IF ~findById(requests[r].application.jobId).some
       THEN /\ response' = [status |-> 200, handler |-> "deleteApplication"]
            /\ requests' = without(r)
       ELSE /\ requests' = proceed(r,
                 [handler |-> "deleteApplication", pc |-> "save",
                  application |-> requests[r].application,
                  job |-> findById(requests[r].application.jobId).v])
            /\ UNCHANGED response
  /\ UNCHANGED <<jobs, resume, reads, applications, users>>
  /\ UNCHANGED <<scorerVars, pipeline>>

\* deleteApplication from Math.max(0, job.applicantsCount - 1) to the response
saveDecrementedCount(r) ==
  /\ response = NoResponse
  /\ at(r, "deleteApplication", "save")
  /\ jobs' = savedCount(requests[r].job, Max(0, requests[r].job.applicantsCount - 1))
  /\ response' = [status |-> 200, handler |-> "deleteApplication"]
  /\ requests' = without(r)
  /\ UNCHANGED <<resume, reads, applications, users>>
  /\ UNCHANGED <<scorerVars, pipeline>>

----------------------------------------------------------------------------
(* Job seekers apply for the jobs of an employer and withdraw *)

MaxInFlight == 2
MaxApplicantsCount == 2
JobSeekers == {"seeker1", "seeker2"}

\* the result of Resume.findOne: no resume, or an analysed one
ResumesFound == {None, Some([skills |-> ExampleCandidate])}

\* req.body.jobId of applyForJob
AppliedJobIds == {None, Some(1), Some(2)}

\* req.params.id of deleteApplication
DeletedIds == 1..(Cardinality(JobSeekers) + 1)

NextApply ==
  \/ \E jobSeekerId \in JobSeekers, jobId \in AppliedJobIds :
       applyForJob(jobSeekerId, jobId, MaxInFlight, MaxApplicantsCount)
  \/ \E r \in DOMAIN requests, found \in ResumesFound : checkExisting(r, found)
  \/ \E r \in DOMAIN requests : createApplication(r)
  \/ \E r \in DOMAIN requests : saveApplicantsCount(r)
  \/ \E jobSeekerId \in JobSeekers, id \in DeletedIds :
       deleteApplication(jobSeekerId, id, MaxInFlight)
  \/ \E r \in DOMAIN requests : removeApplication(r)
  \/ \E r \in DOMAIN requests : findJobOfApplication(r)
  \/ \E r \in DOMAIN requests : saveDecrementedCount(r)
  \/ sendResponse

\* an employer has posted a job
InitApply ==
  /\ resumeSkills = None
  /\ jobSkills = None
  /\ matchResult = NoResult
  /\ pc = "idle"
  /\ jobs = << jobDocument(bodyRequiring(<< sJavascript >>), 1) >>
  /\ resume = None
  /\ response = NoResponse
  /\ reads = NoReads
  /\ pipeline = None
  /\ applications = <<>>
  /\ users = <<>>
  /\ requests = <<>>

SpecApply == InitApply /\ [][NextApply]_vars

\* the requests of one job seeker: the records of a job seeker are created
\* and deleted by the requests of that job seeker only
NextReapply ==
  \/ \E jobId \in AppliedJobIds :
       applyForJob("seeker1", jobId, MaxInFlight, MaxApplicantsCount)
  \/ \E r \in DOMAIN requests, found \in ResumesFound : checkExisting(r, found)
  \/ \E r \in DOMAIN requests : createApplication(r)
  \/ \E r \in DOMAIN requests : saveApplicantsCount(r)
  \/ \E id \in DeletedIds : deleteApplication("seeker1", id, MaxInFlight)
  \/ \E r \in DOMAIN requests : removeApplication(r)
  \/ \E r \in DOMAIN requests : findJobOfApplication(r)
  \/ \E r \in DOMAIN requests : saveDecrementedCount(r)
  \/ sendResponse

SpecReapply == InitApply /\ [][NextReapply]_vars

----------------------------------------------------------------------------
(* Properties of the applications *)

\* the positions of the stored applications of a job seeker for a job
applicationsOf(jobId, jobSeekerId) ==
  {i \in 1..Len(applications) :
     applications[i].jobId = jobId /\ applications[i].jobSeekerId = jobSeekerId}

atMostOnePerPair ==
  \A i, j \in 1..Len(applications) :
    (/\ applications[i].jobId = applications[j].jobId
     /\ applications[i].jobSeekerId = applications[j].jobSeekerId) => i = j

\* request r of applyForJob has loaded its job and not yet created its record
beforeCreate(r) ==
  /\ requests[r].handler = "applyForJob"
  /\ requests[r].pc \in {"findOne", "create"}

\* the step is one of request r
stepOf(r) ==
  \/ Len(requests') = Len(requests) /\ requests'[r] # requests[r]
  \/ Len(requests') < Len(requests) /\ requests' = without(r)

\* a request that looks for or creates its record while the pair is stored
\* ends with the 400 outcome and creates nothing
secondApplyRefused ==
  \A r \in 1..Len(requests) :
    (/\ beforeCreate(r)
     /\ applicationsOf(requests[r].job.id, requests[r].jobSeekerId) # {}
     /\ stepOf(r))
      => /\ response'.status = 400
         /\ response'.message = alreadyApplied
         /\ applications' = applications

\* C26: there is at most one application per job and job seeker, and a
\* request of applyForJob that reaches its check or its create while the
\* pair is stored ends with 400 'You have already applied for this job' and
\* creates nothing, in every interleaving of the requests.
C26_OneApplicationPerPair == []atMostOnePerPair /\ [][secondApplyRefused]_vars

\* a request passed the check of the existing application and was refused
\* at its create, the record of the other request being the only one stored
C26_Witness ==
  /\ response.status = 400
  /\ "position" \in DOMAIN response
  /\ response.position = "create"
  /\ response.message = alreadyApplied
  /\ Cardinality(applicationsOf(response.jobId, response.jobSeekerId)) = 1

\* the number of stored applications of a job
applicantsOf(jobId) ==
  Cardinality({i \in 1..Len(applications) : applications[i].jobId = jobId})

\* C27 (as claimed): when every request of applyForJob and deleteApplication
\* has completed, the applicantsCount of every job is the number of the
\* applications stored for it, and not negative.
C27_CountOfApplications ==
  requests = <<>> =>
    \A i \in 1..Len(jobs) :
      /\ jobs[i].applicantsCount = applicantsOf(jobs[i].id)
      /\ jobs[i].applicantsCount >= 0

----------------------------------------------------------------------------
(* admin.controller.js: updateUserRole and toggleUserActiveStatus *)

\* user._id of a loaded document: an ObjectId object
objectIdOf(user) == [type |-> "object", value |-> user.id]

\* user.id of a loaded document: the hex string of its _id
idStringOf(user) == [type |-> "string", value |-> user.id]

\* a === b: primitives of one type with one value; an object equals itself
\* only, and the ObjectId of every loaded document is an object of its own
strictEquals(a, b) ==
  /\ a.type = "string"
  /\ b.type = "string"
  /\ a.value = b.value

\* User.findById(id)
findUserById(id) ==
  IF \E i \in 1..Len(users) : users[i].id = id
    THEN Some(users[CHOOSE i \in 1..Len(users) : users[i].id = id])
    ELSE None

\* User.countDocuments({role: 'admin'})
adminCount == Cardinality({i \in 1..Len(users) : users[i].role = "admin"})

validRoles == {"jobseeker", "employer", "admin"}

cannotDemote == "Cannot demote the only admin"
cannotDeactivate == "Cannot deactivate your own account"

\* the User collection after user.save() of a loaded user with one path
\* assigned: the path is set on the stored document when its value changed
savedUser(loaded, path, value) ==
  [i \in 1..Len(users) |->
     IF users[i].id = loaded.id /\ value # loaded[path]
       THEN [users[i] EXCEPT ![path] = value]
       ELSE users[i]]

\* a request of the admin routes at protect and restrictTo('admin'): the
\* caller of the token is loaded, and has no other request in flight
protect(handler, callerId, id, role) ==
  /\ response = NoResponse
  /\ \A r \in 1..Len(requests) : requests[r].callerId # callerId
  /\ IF ~findUserById(callerId).some
       THEN response' = [status |-> 401, handler |-> handler] /\ UNCHANGED requests
     ELSE IF ~findUserById(callerId).v.isActive
       THEN response' = [status |-> 403, handler |-> handler] /\ UNCHANGED requests
     ELSE IF findUserById(callerId).v.role # "admin"
       THEN response' = [status |-> 403, handler |-> handler] /\ UNCHANGED requests
     ELSE /\ requests' = Append(requests, [handler |-> handler, pc |-> "findById",
                                           callerId |-> callerId,
                                           caller |-> findUserById(callerId).v,
                                           id |-> id, role |-> role])
          /\ UNCHANGED response
  /\ UNCHANGED <<jobs, resume, reads, applications, users>>
  /\ UNCHANGED <<scorerVars, pipeline>>

\* the response of a request of the admin routes; onlyAdmin tells whether
\* the caller was the only admin when the request loaded its user
adminResponse(status, message, request, onlyAdmin) ==
  [status |-> status, message |-> message, handler |-> request.handler,
   callerId |-> request.callerId, id |-> request.id, role |-> request.role,
   onlyAdmin |-> onlyAdmin]

\* the caller of the request is the only user with the role admin
isOnlyAdmin(request) ==
  /\ adminCount = 1
  /\ findUserById(request.callerId).some
  /\ findUserById(request.callerId).v.role = "admin"

\* the request with the user it loaded, before its save
loadedUser(request, user) ==
  [handler |-> request.handler, pc |-> "save", callerId |-> request.callerId,
   caller |-> request.caller, id |-> request.id, role |-> request.role,
   user |-> user, onlyAdmin |-> isOnlyAdmin(request)]

\* updateUserRole up to user.role = role
updateUserRole(r) ==
  /\ response = NoResponse
  /\ at(r, "updateUserRole", "findById")
  /\ IF requests[r].role \notin validRoles
       THEN /\ response' = adminResponse(400, "Invalid role", requests[r], isOnlyAdmin(requests[r]))
            /\ requests' = without(r)
     ELSE IF ~findUserById(requests[r].id).some
       THEN /\ response' = adminResponse(404, "User not found", requests[r], isOnlyAdmin(requests[r]))
            /\ requests' = without(r)
     ELSE IF /\ findUserById(requests[r].id).v.role = "admin"
             /\ strictEquals(idStringOf(requests[r].caller),
                             objectIdOf(findUserById(requests[r].id).v))
             /\ requests[r].role # "admin"
             /\ adminCount = 1
       THEN /\ response' = adminResponse(400, cannotDemote, requests[r], isOnlyAdmin(requests[r]))
            /\ requests' = without(r)
     ELSE /\ requests' = proceed(r, loadedUser(requests[r], findUserById(requests[r].id).v))
          /\ UNCHANGED response
  /\ UNCHANGED <<jobs, resume, reads, applications, users>>
  /\ UNCHANGED <<scorerVars, pipeline>>

\* updateUserRole from user.save() to the response
saveUserRole(r) ==
  /\ response = NoResponse
  /\ at(r, "updateUserRole", "save")
  /\ users' = savedUser(requests[r].user, "role", requests[r].role)
  /\ response' = adminResponse(200, "", requests[r], requests[r].onlyAdmin)
  /\ requests' = without(r)
  /\ UNCHANGED <<jobs, resume, reads, applications>>
  /\ UNCHANGED <<scorerVars, pipeline>>

\* toggleUserActiveStatus up to user.isActive = !user.isActive
toggleUserActiveStatus(r) ==
  /\ response = NoResponse
  /\ at(r, "toggleUserActiveStatus", "findById")
  /\ IF ~findUserById(requests[r].id).some
       THEN /\ response' = adminResponse(404, "User not found", requests[r], isOnlyAdmin(requests[r]))
            /\ requests' = without(r)
     ELSE IF strictEquals(idStringOf(requests[r].caller),
                          objectIdOf(findUserById(requests[r].id).v))
       THEN /\ response' = adminResponse(400, cannotDeactivate, requests[r], isOnlyAdmin(requests[r]))
            /\ requests' = without(r)
     ELSE /\ requests' = proceed(r, loadedUser(requests[r], findUserById(requests[r].id).v))
          /\ UNCHANGED response
  /\ UNCHANGED <<jobs, resume, reads, applications, users>>
  /\ UNCHANGED <<scorerVars, pipeline>>

\* toggleUserActiveStatus from user.save() to the response
saveUserActiveStatus(r) ==
  /\ response = NoResponse
  /\ at(r, "toggleUserActiveStatus", "save")
  /\ users' = savedUser(requests[r].user, "isActive", ~requests[r].user.isActive)
  /\ response' = adminResponse(200, "", requests[r], requests[r].onlyAdmin)
  /\ requests' = without(r)
  /\ UNCHANGED <<jobs, resume, reads, applications>>
  /\ UNCHANGED <<scorerVars, pipeline>>

----------------------------------------------------------------------------
(* Administrators change the roles and the active status of the users *)

\* an administrator and a job seeker have registered
RegisteredUsers ==
  << [id |-> 1, role |-> "admin", isActive |-> TRUE],
     [id |-> 2, role |-> "jobseeker", isActive |-> TRUE] >>

\* the ids of the users, and one of no user
UserIds == {1, 2, 3}

\* req.body.role
RoleInputs == {"jobseeker", "admin", "owner"}

InitAdmin ==
  /\ resumeSkills = None
  /\ jobSkills = None
  /\ matchResult = NoResult
  /\ pc = "idle"
  /\ jobs = <<>>
  /\ resume = None
  /\ response = NoResponse
  /\ reads = NoReads
  /\ pipeline = None
  /\ applications = <<>>
  /\ users = RegisteredUsers
  /\ requests = <<>>

NextAdmin ==
  \/ \E callerId \in UserIds, id \in UserIds, role \in RoleInputs :
       protect("updateUserRole", callerId, id, role)
  \/ \E callerId \in UserIds, id \in UserIds :
       protect("toggleUserActiveStatus", callerId, id, "")
  \/ \E r \in DOMAIN requests : updateUserRole(r)
  \/ \E r \in DOMAIN requests : saveUserRole(r)
  \/ \E r \in DOMAIN requests : toggleUserActiveStatus(r)
  \/ \E r \in DOMAIN requests : saveUserActiveStatus(r)
  \/ sendResponse

SpecAdmin == InitAdmin /\ [][NextAdmin]_vars

----------------------------------------------------------------------------
(* Properties of the admin requests *)

\* the response of a request of a handler whose target is its caller
answeredSelf(handler) ==
  /\ "handler" \in DOMAIN response
  /\ response.handler = handler
  /\ "callerId" \in DOMAIN response
  /\ response.callerId = response.id

\* C28 (as claimed): a request of toggleUserActiveStatus whose target is its
\* caller ends with 400 'Cannot deactivate your own account', and the caller
\* stays active.
C28_SelfToggleRefused ==
  answeredSelf("toggleUserActiveStatus") =>
    /\ response.status = 400
    /\ response.message = cannotDeactivate
    /\ findUserById(response.callerId).v.isActive

\* C29 (as claimed): a request of updateUserRole by the only admin for a
\* non-admin role on the own account ends with 400 'Cannot demote the only
\* admin', and the users always include an admin.
C29_OnlyAdminStays ==
  /\ adminCount >= 1
  /\ (answeredSelf("updateUserRole") /\ response.onlyAdmin
        /\ response.role \in validRoles \ {"admin"})
       => response.status = 400 /\ response.message = cannotDemote

====
